---- MODULE Spec2Model ----
(***************************************************************************)
(* Model of the LEET application's data store, ingestion loader            *)
(* (add_data.py) and aggregation layer (report_utils.py, figures.py,       *)
(* routes.py).                                                             *)
(*                                                                         *)
(* The store is one record `db` holding the four tables of models.py.      *)
(* The loader is a process whose steps are the transactions it commits:    *)
(* every step below ends where the code calls db.session.commit() or       *)
(* rollback().  The aggregation operations are read-only handlers, served  *)
(* once a load has returned or raised; each leaves its answer in `resp`.   *)
(* The news-feed handler uses no table and has a specification of its own. *)
(***************************************************************************)
EXTENDS Integers, Sequences, FiniteSets, TLC

VARIABLES
    db,        \* the four tables: borough, building_type, building, energy_usage
    csv,       \* the rows of data/prepared_heat_demand_data.csv (fixed input)
    csv_exists,\* whether that file is there to be read (fixed input)
    pc,        \* position of add_all_data
    df,        \* the cleaned DataFrame of the running load
    type_map,  \* add_buildings_and_energy: building_type_name -> building_type_id
    rowIdx,    \* add_buildings_and_energy: index of the next df row
    start,     \* history: the store when the running load began
    loaded,    \* history: indices of the df rows committed by the running load
    log,       \* the kinds of message the running load has printed
    resp,      \* the answer of the last aggregation request
    run        \* two add_all_data invocations sharing the store: position and locals of each

vars == <<db, csv, csv_exists, run, pc, df, type_map, rowIdx, start, loaded, log, resp>>

----------------------------------------------------------------------------
(* Bounds and input sets *)

MaxRows == 3

\* LATITUDE / LONGITUDE are kept in units of 1e-6 degree.
Row(b, t, lat, lon, resi, nonresi, kwh, peak) ==
    [BOROUGH |-> b, BUILDING_TYPE |-> t, LATITUDE |-> lat, LONGITUDE |-> lon,
     RESI_COUNT |-> resi, NONRESI_COUNT |-> nonresi, KWH |-> kwh, PEAK_KW |-> peak]

R1 == Row("Camden", "Residential", 51500000, -100000, 2, 0, 1000, 50)
R2 == Row("Camden", "Mixed-Use", 51510000, -110000, 1, 1, 3000, 120)
R3 == Row("Westminster", "Residential", 51520000, -120000, 5, 0, 500, 20)
R4 == Row(" Camden ", "Residential ", 51530000, -130000, 0, 1, -200, 10)

RowUniverse == {R1, R2, R3, R4}

ScenarioRows == <<R1, R2, R3>>

RECURSIVE SeqsUpTo(_, _)
\* The sequences of at most n distinct elements of S.
SeqsUpTo(S, n) ==
    IF n = 0 THEN {<<>>}
    ELSE LET shorter == SeqsUpTo(S, n - 1)
             longest == {q \in shorter : Len(q) = n - 1}
         IN  shorter \cup
             UNION {{Append(s, x) : x \in S \ {s[i] : i \in 1..Len(s)}} : s \in longest}

\* The files the loader can read: up to MaxRows distinct rows, in any order.
Datasets == SeqsUpTo(RowUniverse, MaxRows)

BoroughArgs == {"Camden", "Westminster", "Nowhere"}
BuildingTypeArgs == {"", "Residential", "Mixed-Use"}
Thresholds == {0, 1000, 3000, 3500}

----------------------------------------------------------------------------
(* The store *)

EmptyDb ==
    [borough |-> {}, building_type |-> {}, building |-> {}, energy_usage |-> {}]

Building(id, b, lat, lon, resi, nonresi, tid) ==
    [building_id |-> id, borough_name |-> b, latitude |-> lat, longitude |-> lon,
     residential_count |-> resi, non_residential_count |-> nonresi,
     building_type_id |-> tid]

EnergyUsage(id, bid, kwh, peak) ==
    [usage_id |-> id, building_id |-> bid, kwh |-> kwh, peak_kw |-> peak]

BuildingType(id, name) ==
    [building_type_id |-> id, building_type_name |-> name]

Max(S) == CHOOSE m \in S : \A x \in S : x <= m

\* Integer primary key with autoincrement: one more than the largest key.
NextId(ids) == IF ids = {} THEN 1 ELSE Max(ids) + 1

\* Stores a load can find.  All satisfy the declared foreign keys: the empty
\* store, stores with one lookup table filled, and a store filled row by row
\* (as tests/test_models.py does) in which one building has two usage rows
\* and another has none.
OnlyBoroughDb == [EmptyDb EXCEPT !.borough = {"Camden"}]

OnlyTypeDb == [EmptyDb EXCEPT !.building_type = {BuildingType(1, "Residential")}]

PopulatedDb ==
    [borough |-> {"Camden", "Westminster"},
     building_type |-> {BuildingType(1, "Residential")},
     building |-> {Building(1, "Camden", 51500000, -100000, 3, 2, 1),
                   Building(2, "Westminster", 51520000, -120000, 0, 10, 1)},
     energy_usage |-> {EnergyUsage(1, 1, 1000, 50), EnergyUsage(2, 1, 3000, 120)}]

\* A building stored without any usage row.
BuildingOnlyDb ==
    [borough |-> {"Camden"},
     building_type |-> {BuildingType(1, "Residential")},
     building |-> {Building(1, "Camden", 51500000, -100000, 3, 2, 1)},
     energy_usage |-> {}]

InitStores == {EmptyDb, OnlyBoroughDb, OnlyTypeDb, PopulatedDb, BuildingOnlyDb}

Counts(d) ==
    [borough |-> Cardinality(d.borough),
     building_type |-> Cardinality(d.building_type),
     building |-> Cardinality(d.building),
     energy_usage |-> Cardinality(d.energy_usage)]

\* A mutant of BuildingFKOk: the foreign key on borough_name is missing.
BuildingFKOkTypeOnly(d, b) ==
    \E t \in d.building_type : t.building_type_id = b.building_type_id

\* The two foreign keys declared on Building.
BuildingFKOk(d, b) ==
    /\ b.borough_name \in d.borough
    /\ \E t \in d.building_type : t.building_type_id = b.building_type_id

\* Whether the engine rejects an INSERT that breaks a declared foreign key.
ForeignKeysEnforced == TRUE

----------------------------------------------------------------------------
(* Ingestion loader, add_data.py *)

\* str.strip() on the finite universe of raw names.
Strip(s) ==
    CASE s = " Camden " -> "Camden"
      [] s = "Residential " -> "Residential"
      [] OTHER -> s

clean_dataframe(rows) ==
    [i \in 1..Len(rows) |->
        [rows[i] EXCEPT !.BOROUGH = Strip(@), !.BUILDING_TYPE = Strip(@)]]

\* Series.unique(): the distinct values in order of first appearance.
RECURSIVE Unique(_)
Unique(s) ==
    IF s = <<>> THEN <<>>
    ELSE LET front == Unique(SubSeq(s, 1, Len(s) - 1))
             last == s[Len(s)]
         IN  IF \E i \in 1..Len(front) : front[i] = last THEN front
             ELSE Append(front, last)

Column(frame, col) == [i \in 1..Len(frame) |-> frame[i][col]]

\* add_boroughs: every unique borough not yet stored is added, then commit.
add_boroughs(d, frame) ==
    LET names == Unique(Column(frame, "BOROUGH"))
    IN  [d EXCEPT !.borough = @ \cup {names[i] : i \in 1..Len(names)}]

\* add_building_types: every unique type name with no row of that name is
\* added and numbered in order of first appearance, then commit.
RECURSIVE AddTypes(_, _)
AddTypes(types, names) ==
    IF names = <<>> THEN types
    ELSE LET name == Head(names)
             exists == \E t \in types : t.building_type_name = name
             id == NextId({t.building_type_id : t \in types})
         IN  AddTypes(IF exists THEN types ELSE types \cup {BuildingType(id, name)},
                      Tail(names))

add_building_types(d, frame) ==
    [d EXCEPT !.building_type = AddTypes(@, Unique(Column(frame, "BUILDING_TYPE")))]

\* A mutant of ShouldPopulate: the row count is not consulted.
ShouldPopulateAlways(count) == count >= 0

\* add_all_data line 117: a table is populated only when it has no row.
ShouldPopulate(count) == count = 0

\* A mutant of TypeMaps: a name is mapped to the id of any stored type.
TypeMapsAnyId(d) ==
    [{t.building_type_name : t \in d.building_type} ->
        {t.building_type_id : t \in d.building_type}]

\* The lookup maps built from BuildingType.query.all(): one id per name (the
\* query has no ORDER BY, so with duplicate names any of their ids can win).
TypeMaps(d) ==
    LET names == {t.building_type_name : t \in d.building_type}
    IN  {tm \in [names -> {t.building_type_id : t \in d.building_type}] :
            \A n \in names : BuildingType(tm[n], n) \in d.building_type}

\* A mutant of InsertRow: the Building is stored without its usage row.
InsertRowBuildingOnly(d, row, tid) ==
    LET bid == NextId({b.building_id : b \in d.building})
    IN  [d EXCEPT
           !.building = @ \cup {Building(bid, row.BOROUGH, row.LATITUDE, row.LONGITUDE,
                                          row.RESI_COUNT, row.NONRESI_COUNT, tid)}]

\* A mutant of InsertRow: the usage row takes the id of the first building
\* instead of the id the flush assigned.
InsertRowFirstBuilding(d, row, tid) ==
    LET bid == NextId({b.building_id : b \in d.building})
        uid == NextId({u.usage_id : u \in d.energy_usage})
    IN  [d EXCEPT
           !.building = @ \cup {Building(bid, row.BOROUGH, row.LATITUDE, row.LONGITUDE,
                                          row.RESI_COUNT, row.NONRESI_COUNT, tid)},
           !.energy_usage = @ \cup {EnergyUsage(uid, 1, row.KWH, row.PEAK_KW)}]

\* One iteration of the row loop that succeeds: Building, flush, EnergyUsage,
\* commit.
InsertRow(d, row, tid) ==
    LET bid == NextId({b.building_id : b \in d.building})
        uid == NextId({u.usage_id : u \in d.energy_usage})
    IN  [d EXCEPT
           !.building = @ \cup {Building(bid, row.BOROUGH, row.LATITUDE, row.LONGITUDE,
                                          row.RESI_COUNT, row.NONRESI_COUNT, tid)},
           !.energy_usage = @ \cup {EnergyUsage(uid, bid, row.KWH, row.PEAK_KW)}]

\* Whether the flush of the row's Building raises IntegrityError.
FlushFails(d, row, tid) ==
    /\ ForeignKeysEnforced
    /\ ~BuildingFKOk(d, Building(0, row.BOROUGH, row.LATITUDE, row.LONGITUDE,
                                 row.RESI_COUNT, row.NONRESI_COUNT, tid))

NoResp == [op |-> "none"]

\* A mutant of Caught: only the database handler is there.
CaughtDatabaseOnly(exc) == exc = "SQLAlchemyError"

\* The exceptions the handlers of add_all_data (lines 122-126) catch, which
\* are also all that add_boroughs, add_building_types and
\* add_buildings_and_energy catch (SQLAlchemyError).
Caught(exc) == exc \in {"FileNotFoundError", "SQLAlchemyError"}

\* A mutant of RolledBack: every add was committed on its own, so the names
\* added before the failing statement stay.
RolledBackPartial(table, added) == table \cup added

\* db.session.rollback() in add_boroughs and add_building_types: the one
\* commit of the sub-step has not happened, so the rows added so far go.
RolledBack(table, added) == table

\* Where a sub-step over n names can meet a database error: nowhere (0), at
\* the statement for the k-th name (1..n), or at the commit (n + 1).
FailPoints(n) == 0..(n + 1)

\* add_boroughs with the database failing at point k (0: no failure).
add_boroughs_at(d, frame, k) ==
    LET names == Unique(Column(frame, "BOROUGH"))
    IN  IF k = 0 THEN add_boroughs(d, frame)
        ELSE [d EXCEPT !.borough =
                 RolledBack(@, {names[i] : i \in 1..(IF k > Len(names) THEN Len(names)
                                                     ELSE k - 1)})]

\* add_building_types with the database failing at point k (0: no failure).
add_building_types_at(d, frame, k) ==
    LET names == Unique(Column(frame, "BUILDING_TYPE"))
        upto == IF k > Len(names) THEN Len(names) ELSE k - 1
    IN  IF k = 0 THEN add_building_types(d, frame)
        ELSE [d EXCEPT !.building_type =
                 RolledBack(@, AddTypes(@, SubSeq(names, 1, upto)) \ @)]

\* Two invocations of add_all_data (create_app and the load-data command),
\* each with its own session and its own local variables.
Loaders == {1, 2}

IdleRun == [pc |-> "idle", todo |-> {}, type_map |-> <<>>, rowIdx |-> 0]

Init ==
    /\ db \in InitStores
    /\ \/ csv_exists = TRUE /\ csv \in Datasets
       \/ csv_exists = FALSE /\ csv = <<>>
    /\ pc = "idle"
    /\ df = <<>>
    /\ type_map = <<>>
    /\ rowIdx = 0
    /\ start = db
    /\ loaded = {}
    /\ log = {}
    /\ resp = NoResp
    /\ run = [p \in Loaders |-> IdleRun]

\* add_all_data lines 101-107: read the CSV and clean it.  pd.read_csv raises
\* FileNotFoundError when the file is not there.  A request reads the store
\* in one step, so delivering its answer commutes with every step of a load:
\* a load is taken to start once the pending answer is delivered.
add_all_data ==
    /\ pc \in {"idle", "done", "raised"}
    /\ resp = NoResp
    /\ IF csv_exists
       THEN /\ pc' = "boroughs"
            /\ df' = clean_dataframe(csv)
            /\ log' = {}
       ELSE /\ pc' = IF Caught("FileNotFoundError") THEN "done" ELSE "raised"
            /\ df' = <<>>
            /\ log' = IF Caught("FileNotFoundError") THEN {"CSV file not found"} ELSE {}
    /\ type_map' = <<>>
    /\ rowIdx' = 0
    /\ start' = db
    /\ loaded' = {}
    /\ UNCHANGED <<db, csv, csv_exists, run, resp>>

\* First table of the loop of lines 115-120.
LoadBoroughs ==
    /\ pc = "boroughs"
    /\ IF ShouldPopulate(Cardinality(db.borough))
       THEN \E k \in FailPoints(Len(Unique(Column(df, "BOROUGH")))) :
               /\ db' = add_boroughs_at(db, df, k)
               /\ log' = IF k = 0 THEN log ELSE log \cup {"Failed to add boroughs"}
       ELSE UNCHANGED <<db, log>>
    /\ pc' = "building_types"
    /\ UNCHANGED <<csv, csv_exists, run, df, type_map, rowIdx, start, loaded, resp>>

\* Second table.
LoadBuildingTypes ==
    /\ pc = "building_types"
    /\ IF ShouldPopulate(Cardinality(db.building_type))
       THEN \E k \in FailPoints(Len(Unique(Column(df, "BUILDING_TYPE")))) :
               /\ db' = add_building_types_at(db, df, k)
               /\ log' = IF k = 0 THEN log ELSE log \cup {"Failed to add building types"}
       ELSE UNCHANGED <<db, log>>
    /\ pc' = "buildings"
    /\ UNCHANGED <<csv, csv_exists, run, df, type_map, rowIdx, start, loaded, resp>>

\* A mutant of BeginBuildings: the rows are loaded when EnergyUsage is empty.
BeginBuildingsByUsage ==
    /\ pc = "buildings"
    /\ IF ShouldPopulate(Cardinality(db.energy_usage))
       THEN /\ type_map' \in TypeMaps(db)
            /\ rowIdx' = 1
            /\ pc' = "rows"
       ELSE /\ pc' = "done"
            /\ UNCHANGED <<type_map, rowIdx>>
    /\ UNCHANGED <<db, csv, csv_exists, run, df, start, loaded, log, resp>>

\* Third table: either skipped, or add_buildings_and_energy builds type_map.
BeginBuildings ==
    /\ pc = "buildings"
    /\ IF ShouldPopulate(Cardinality(db.building))
       THEN /\ type_map' \in TypeMaps(db)
            /\ rowIdx' = 1
            /\ pc' = "rows"
       ELSE /\ pc' = "done"
            /\ UNCHANGED <<type_map, rowIdx>>
    /\ UNCHANGED <<db, csv, csv_exists, run, df, start, loaded, log, resp>>

\* One iteration of the loop of lines 66-90.  type_map[...] raises KeyError
\* for a name it does not hold; KeyError is not an SQLAlchemyError, so neither
\* handler of add_buildings_and_energy nor those of add_all_data catch it.
LoadRow ==
    /\ pc = "rows"
    /\ rowIdx <= Len(df)
    /\ LET row == df[rowIdx]
       IN  IF row.BUILDING_TYPE \notin DOMAIN type_map
           THEN /\ pc' = IF Caught("KeyError") THEN "done" ELSE "raised"
                /\ UNCHANGED <<db, rowIdx, loaded, log>>
           ELSE IF FlushFails(db, row, type_map[row.BUILDING_TYPE])
           THEN /\ rowIdx' = rowIdx + 1
                /\ log' = log \cup {"Skipped row"}
                /\ UNCHANGED <<db, pc, loaded>>
           ELSE /\ db' = InsertRow(db, row, type_map[row.BUILDING_TYPE])
                /\ loaded' = loaded \cup {rowIdx}
                /\ rowIdx' = rowIdx + 1
                /\ UNCHANGED <<pc, log>>
    /\ UNCHANGED <<csv, csv_exists, run, df, type_map, start, resp>>

\* The loop is exhausted: add_buildings_and_energy and add_all_data return.
FinishBuildings ==
    /\ pc = "rows"
    /\ rowIdx > Len(df)
    /\ pc' = "done"
    /\ UNCHANGED <<db, csv, csv_exists, run, df, type_map, rowIdx, start, loaded, log, resp>>

Loader ==
    \/ add_all_data
    \/ LoadBoroughs
    \/ LoadBuildingTypes
    \/ BeginBuildings
    \/ LoadRow
    \/ FinishBuildings

----------------------------------------------------------------------------
(* Aggregation layer, report_utils.py and figures.py *)

\* An optional value: None, or Some(v).
None == <<>>

Some(v) == <<v>>

IsNone(x) == x = None

\* Python truthiness of a string argument and of a number argument.
TruthyStr(s) == s # ""

TruthyNum(n) == n # 0

RECURSIVE SumOf(_, _)
\* Series.sum() of column col of a frame (a function from index to row).
SumOf(frame, col) ==
    IF DOMAIN frame = {} THEN 0
    ELSE LET i == CHOOSE j \in DOMAIN frame : TRUE
         IN  frame[i][col] + SumOf([j \in DOMAIN frame \ {i} |-> frame[j]], col)

Abs(n) == IF n < 0 THEN -n ELSE n

RECURSIVE GCD(_, _)
GCD(a, b) == IF b = 0 THEN a ELSE GCD(b, a % b)

\* The exact quotient n/d, d > 0, in lowest terms.
Frac(n, d) ==
    LET g == GCD(Abs(n), d)
    IN  [num |-> n \div g, den |-> d \div g]

\* Series.mean() of a non-empty frame's column.
MeanOf(frame, col) == Frac(SumOf(frame, col), Cardinality(DOMAIN frame))

\* Series.nunique().
NUnique(frame, col) == Cardinality({frame[i][col] : i \in DOMAIN frame})

\* A mutant of SummaryMatches: the threshold filter is applied also for 0.
SummaryMatchesAlwaysThreshold(d, borough, building_type, threshold) ==
    {m \in d.building \X d.energy_usage \X d.building_type :
        /\ m[1].building_id = m[2].building_id
        /\ m[3].building_type_id = m[1].building_type_id
        /\ m[1].borough_name = borough
        /\ (TruthyStr(building_type) => m[3].building_type_name = building_type)
        /\ m[2].kwh >= threshold}

\* A mutant of SummaryMatches: the threshold comparison is strict.
SummaryMatchesStrict(d, borough, building_type, threshold) ==
    {m \in d.building \X d.energy_usage \X d.building_type :
        /\ m[1].building_id = m[2].building_id
        /\ m[3].building_type_id = m[1].building_type_id
        /\ m[1].borough_name = borough
        /\ (TruthyStr(building_type) => m[3].building_type_name = building_type)
        /\ (TruthyNum(threshold) => m[2].kwh > threshold)}

\* A mutant of SummaryMatches: the threshold filter is dropped.
SummaryMatchesNoThreshold(d, borough, building_type, threshold) ==
    {m \in d.building \X d.energy_usage \X d.building_type :
        /\ m[1].building_id = m[2].building_id
        /\ m[3].building_type_id = m[1].building_type_id
        /\ m[1].borough_name = borough
        /\ (TruthyStr(building_type) => m[3].building_type_name = building_type)
        /\ threshold = threshold}

\* The statement of lines 43-61 of report_utils.py, as the set of
\* (building, usage, type) triples it selects.
SummaryMatches(d, borough, building_type, threshold) ==
    {m \in d.building \X d.energy_usage \X d.building_type :
        /\ m[1].building_id = m[2].building_id
        /\ m[3].building_type_id = m[1].building_type_id
        /\ m[1].borough_name = borough
        /\ (TruthyStr(building_type) => m[3].building_type_name = building_type)
        /\ (TruthyNum(threshold) => m[2].kwh >= threshold)}

\* pd.read_sql_query: the frame of the selected rows.  A frame is a function
\* from row index to row; the usage_id of the row stands for its position in
\* the result.
SummaryFrame(d, borough, building_type, threshold) ==
    LET ms == SummaryMatches(d, borough, building_type, threshold)
        at(i) == CHOOSE m \in ms : m[2].usage_id = i
    IN  [i \in {m[2].usage_id : m \in ms} |->
            [building_id |-> at(i)[1].building_id,
             latitude |-> at(i)[1].latitude,
             longitude |-> at(i)[1].longitude,
             building_type_name |-> at(i)[3].building_type_name,
             kwh |-> at(i)[2].kwh,
             peak_kw |-> at(i)[2].peak_kw]]

\* A mutant of TotalBuildings: the rows are counted.
TotalBuildingsRowCount(frame) == Cardinality(DOMAIN frame)

\* Line 69.
TotalBuildings(frame) == NUnique(frame, "building_id")

\* A mutant of SummaryStats: the averages are taken per building.
SummaryStatsPerBuilding(frame) ==
    [total_buildings |-> TotalBuildings(frame),
     total_kwh |-> SumOf(frame, "kwh"),
     avg_kwh |-> Frac(SumOf(frame, "kwh"), TotalBuildings(frame)),
     avg_peak_kw |-> Frac(SumOf(frame, "peak_kw"), TotalBuildings(frame))]

\* Lines 68-79.
SummaryStats(frame) ==
    [total_buildings |-> TotalBuildings(frame),
     total_kwh |-> SumOf(frame, "kwh"),
     avg_kwh |-> MeanOf(frame, "kwh"),
     avg_peak_kw |-> MeanOf(frame, "peak_kw")]

\* Text is a sequence of characters.
Digit(n) == SubSeq(<<"0", "1", "2", "3", "4", "5", "6", "7", "8", "9">>, n + 1, n + 1)

RECURSIVE Digits(_)
Digits(n) == IF n < 10 THEN Digit(n) ELSE Digits(n \div 10) \o Digit(n % 10)

RECURSIVE Grouped(_)
\* The decimal digits of n >= 0 with a comma between groups of three.
Grouped(n) ==
    IF n < 1000 THEN Digits(n)
    ELSE Grouped(n \div 1000) \o <<",">> \o Digit((n % 1000) \div 100)
                              \o Digit((n % 100) \div 10) \o Digit(n % 10)

Signed(n) == IF n < 0 THEN <<"-">> \o Grouped(-n) ELSE Grouped(n)

\* f"{round(x):,}" for a whole number of kWh.
FormatKwh(x) == Signed(x)

\* f"{x:,.2f}" for a whole number of kW.
FormatPeak(x) == Signed(x) \o <<".", "0", "0">>

\* Lines 82-103: the display frame.  Coordinates are held in units of 1e-6
\* degree, which round(6) leaves as they are.
DisplayFrame(frame) ==
    [i \in DOMAIN frame |->
        [Latitude |-> frame[i].latitude,
         Longitude |-> frame[i].longitude,
         BuildingType |-> frame[i].building_type_name,
         AnnualEnergyUse |-> FormatKwh(frame[i].kwh),
         PeakDemand |-> FormatPeak(frame[i].peak_kw)]]

ColumnNames ==
    <<"Latitude", "Longitude", "Building Type", "Annual Energy Use (kWh)",
      "Peak Demand (kW)">>

NoneResult ==
    [df |-> None, display_df |-> None, summary_stats |-> None,
     column_names |-> None, table_data |-> None]

\* A mutant of generate_borough_summary_data: an empty frame is returned as a
\* frame instead of the None sentinel.
generate_borough_summary_data_NoSentinel(d, borough, building_type, threshold) ==
    LET frame == SummaryFrame(d, borough, building_type, threshold)
    IN  IF DOMAIN frame = {}
        THEN [df |-> Some(frame), display_df |-> Some(DisplayFrame(frame)),
              summary_stats |-> None, column_names |-> Some(ColumnNames),
              table_data |-> Some(DisplayFrame(frame))]
        ELSE [df |-> Some(frame),
              display_df |-> Some(DisplayFrame(frame)),
              summary_stats |-> Some(SummaryStats(frame)),
              column_names |-> Some(ColumnNames),
              table_data |-> Some(DisplayFrame(frame))]

generate_borough_summary_data(d, borough, building_type, threshold) ==
    LET frame == SummaryFrame(d, borough, building_type, threshold)
    IN  IF DOMAIN frame = {} THEN NoneResult
        ELSE [df |-> Some(frame),
              display_df |-> Some(DisplayFrame(frame)),
              summary_stats |-> Some(SummaryStats(frame)),
              column_names |-> Some(ColumnNames),
              table_data |-> Some(DisplayFrame(frame))]

NoDataMessage == "No data matches your selected filters."

\* create_app registers the routes after its call of add_all_data has returned
\* or raised: a request is served on the store a load has left.
Serving == pc \in {"idle", "done", "raised"}

\* The values of the output_format parameter.
OutputFormats == {"html", "csv"}

RECURSIVE IndexOrder(_)
\* The row indices of a frame in ascending order: the order of its rows.
IndexOrder(S) ==
    IF S = {} THEN <<>>
    ELSE LET i == CHOOSE j \in S : \A k \in S : j <= k
         IN  <<i>> \o IndexOrder(S \ {i})

\* The text of a float coordinate, held in units of 1e-6 degree.
FloatText(n) == IF n < 0 THEN <<"-">> \o Digits(-n) ELSE Digits(n)

\* The text of a name is one piece.
NameText(name) == <<name>>

RECURSIVE DoubleQuotes(_)
DoubleQuotes(text) ==
    IF text = <<>> THEN <<>>
    ELSE (IF Head(text) = "\"" THEN <<"\"", "\"">> ELSE <<Head(text)>>)
         \o DoubleQuotes(Tail(text))

\* A mutant of CsvField: no field is quoted.
CsvFieldUnquoted(text) == text

\* csv.QUOTE_MINIMAL, the default of to_csv: a field holding the delimiter, a
\* quote or a line end is written between quotes, its quotes doubled.
CsvField(text) ==
    IF \E i \in 1..Len(text) : text[i] \in {",", "\"", "\n"}
    THEN <<"\"">> \o DoubleQuotes(text) \o <<"\"">>
    ELSE text

RECURSIVE CsvLine(_)
\* One line of the file: the fields, commas between them, and the line end.
CsvLine(cells) ==
    IF Len(cells) = 1 THEN CsvField(cells[1]) \o <<"\n">>
    ELSE CsvField(Head(cells)) \o <<",">> \o CsvLine(Tail(cells))

RECURSIVE CsvLines(_)
CsvLines(rows) ==
    IF rows = <<>> THEN <<>> ELSE CsvLine(Head(rows)) \o CsvLines(Tail(rows))

\* The cells of one row of the display frame, in column order.
DisplayCells(row) ==
    <<FloatText(row.Latitude), FloatText(row.Longitude), NameText(row.BuildingType),
      row.AnnualEnergyUse, row.PeakDemand>>

\* display_df.to_csv(index=False): the header line, then one line per row.
SummaryCsv(display_df) ==
    LET order == IndexOrder(DOMAIN display_df)
    IN  CsvLine([i \in 1..Len(ColumnNames) |-> NameText(ColumnNames[i])])
        \o CsvLines([k \in 1..Len(order) |-> DisplayCells(display_df[order[k]])])

\* routes.py, borough_summary_generate: the no-data page, the CSV attachment
\* or the HTML report.
borough_summary_generate ==
    \E borough \in BoroughArgs, building_type \in BuildingTypeArgs,
       threshold \in Thresholds, output_format \in OutputFormats :
        LET ret == generate_borough_summary_data(db, borough, building_type, threshold)
        IN  /\ Serving
            /\ resp = NoResp
            /\ resp' = [op |-> "borough_summary_generate",
                        borough |-> borough,
                        building_type |-> building_type,
                        threshold |-> threshold,
                        output_format |-> output_format,
                        ret |-> ret,
                        template |-> IF IsNone(ret.df) THEN "report_result.html"
                                     ELSE IF output_format = "csv" THEN "(attachment)"
                                     ELSE "borough_summary_report.html",
                        message |-> IF IsNone(ret.df) THEN Some(NoDataMessage)
                                    ELSE None,
                        body |-> IF ~IsNone(ret.df) /\ output_format = "csv"
                                 THEN Some(SummaryCsv(ret.display_df[1]))
                                 ELSE None]
            /\ UNCHANGED <<db, csv, csv_exists, run, pc, df, type_map, rowIdx, start, loaded, log>>

\* figures.py line 249: Building joined to EnergyUsage, as (borough, kwh)
\* rows indexed by usage.
DemandFrame(d) ==
    LET ms == {m \in d.building \X d.energy_usage :
                  m[1].building_id = m[2].building_id}
        at(i) == CHOOSE m \in ms : m[2].usage_id = i
    IN  [i \in {m[2].usage_id : m \in ms} |->
            [borough_name |-> at(i)[1].borough_name, kwh |-> at(i)[2].kwh]]

\* A mutant of IsHighDemand: the comparison is turned round.
IsHighDemandBelow(kwh, threshold_kwh) == kwh < threshold_kwh

\* A mutant of IsHighDemand: the comparison is inclusive.
IsHighDemandInclusive(kwh, threshold_kwh) == kwh >= threshold_kwh

\* Line 252.
IsHighDemand(kwh, threshold_kwh) == kwh > threshold_kwh

\* Lines 252-263: value_counts of the high-demand rows, or the frame's
\* boroughs with 0 when there is none.
DemandCounts(d, threshold_kwh) ==
    LET frame == DemandFrame(d)
        high == {i \in DOMAIN frame : IsHighDemand(frame[i].kwh, threshold_kwh)}
    IN  IF high = {}
        THEN [b \in {frame[i].borough_name : i \in DOMAIN frame} |-> 0]
        ELSE [b \in {frame[i].borough_name : i \in high} |->
                 Cardinality({i \in high : frame[i].borough_name = b})]

create_high_demand_chart ==
    \E threshold_kwh \in Thresholds :
        /\ Serving
        /\ resp = NoResp
        /\ resp' = [op |-> "create_high_demand_chart",
                    threshold |-> threshold_kwh,
                    demand_counts |-> DemandCounts(db, threshold_kwh)]
        /\ UNCHANGED <<db, csv, csv_exists, run, pc, df, type_map, rowIdx, start, loaded, log>>

\* The choices of HighDemandForm.percentile.
Percentiles == {50, 75, 90, 95}

\* A mutant of KwhPopulation: only the rows of Camden's buildings are read.
KwhPopulationOneBorough(d) ==
    {u \in d.energy_usage :
        \E b \in d.building :
            b.building_id = u.building_id /\ b.borough_name = "Camden"}

\* routes.py lines 174-175: select EnergyUsage.kwh, every row of the table.
KwhPopulation(d) == d.energy_usage

\* A mutant of SortedKwh: the values are left in row order.
RECURSIVE SortedKwhRowOrder(_)
SortedKwhRowOrder(us) ==
    IF us = {} THEN <<>>
    ELSE LET u == CHOOSE x \in us : \A y \in us : x.usage_id <= y.usage_id
         IN  <<u.kwh>> \o SortedKwhRowOrder(us \ {u})

\* The kwh values of a set of usage rows in ascending order, which is the
\* order Series.quantile interpolates in.
RECURSIVE SortedKwh(_)
SortedKwh(us) ==
    IF us = {} THEN <<>>
    ELSE LET u == CHOOSE x \in us : \A y \in us : x.kwh <= y.kwh
         IN  <<u.kwh>> \o SortedKwh(us \ {u})

\* Series.quantile(percentile / 100) with the default linear interpolation:
\* position (n - 1) * q in the sorted values, interpolated between its two
\* neighbours; NaN (None here) for an empty series.  The kwh values of the
\* rows modelled are multiples of 100, so the interpolated value is a whole
\* number.
Quantile(us, percentile) ==
    LET xs == SortedKwh(us)
        pos == (Len(xs) - 1) * percentile
        lo == pos \div 100
        frac == pos % 100
    IN  IF xs = <<>> THEN None
        ELSE IF frac = 0 THEN Some(xs[lo + 1])
        ELSE Some(xs[lo + 1] + (frac * (xs[lo + 2] - xs[lo + 1])) \div 100)

\* create_high_demand_chart for the threshold the route passes: no kwh is
\* above NaN, so the chart falls back to the boroughs of the frame with 0.
DemandCountsFor(d, threshold_kwh) ==
    IF IsNone(threshold_kwh)
    THEN [b \in {DemandFrame(d)[i].borough_name : i \in DOMAIN DemandFrame(d)} |-> 0]
    ELSE DemandCounts(d, threshold_kwh[1])

\* routes.py, visualisation_high_demand with a valid form.
visualisation_high_demand ==
    \E percentile \in Percentiles :
        LET threshold_kwh == Quantile(KwhPopulation(db), percentile)
        IN  /\ Serving
            /\ resp = NoResp
            /\ resp' = [op |-> "visualisation_high_demand",
                        percentile |-> percentile,
                        threshold |-> threshold_kwh,
                        demand_counts |-> DemandCountsFor(db, threshold_kwh)]
            /\ UNCHANGED <<db, csv, csv_exists, run, pc, df, type_map, rowIdx, start, loaded, log>>

\* The metric arguments: a column of EnergyUsage, read with getattr.
Metrics == {"kwh", "peak_kw"}

MetricOf(u, metric) == IF metric = "kwh" THEN u.kwh ELSE u.peak_kw

\* The building type arguments of the chart functions.
TypeFilters == {"Residential", "Mixed-Use"}

\* Building joined to EnergyUsage and to BuildingType, as triples.
TypedUsage(d) ==
    {m \in d.building \X d.energy_usage \X d.building_type :
        /\ m[1].building_id = m[2].building_id
        /\ m[3].building_type_id = m[1].building_type_id}

\* The frame of a set of joined triples, indexed by usage, with the columns
\* the chart functions select.
FrameOf(ms, metric) ==
    LET at(i) == CHOOSE m \in ms : m[2].usage_id = i
    IN  [i \in {m[2].usage_id : m \in ms} |->
            [borough_name |-> at(i)[1].borough_name,
             building_type_name |-> at(i)[3].building_type_name,
             latitude |-> at(i)[1].latitude,
             longitude |-> at(i)[1].longitude,
             kwh |-> at(i)[2].kwh,
             peak_kw |-> at(i)[2].peak_kw,
             value |-> MetricOf(at(i)[2], metric)]]

\* The rows of a frame whose column col holds v: one group of df.groupby(col).
Group(frame, col, v) ==
    [i \in {j \in DOMAIN frame : frame[j][col] = v} |-> frame[i]]

ColumnValues(frame, col) == {frame[i][col] : i \in DOMAIN frame}

\* A mutant of BuildingCounts: the GROUP BY is on the borough alone.
BuildingCountsByBorough(d) ==
    LET ms == {m \in d.borough \X d.building \X d.building_type :
                  /\ m[1] = m[2].borough_name
                  /\ m[3].building_type_id = m[2].building_type_id}
    IN  [k \in {<<m[1], m[3].building_type_name>> : m \in ms} |->
            Cardinality({m[2].building_id : m \in {x \in ms : x[1] = k[1]}})]

\* figures.py lines 33-45: the number of buildings per borough and type name.
BuildingCounts(d) ==
    LET ms == {m \in d.borough \X d.building \X d.building_type :
                  /\ m[1] = m[2].borough_name
                  /\ m[3].building_type_id = m[2].building_type_id}
    IN  [k \in {<<m[1], m[3].building_type_name>> : m \in ms} |->
            Cardinality({m[2].building_id : m \in
                {x \in ms : <<x[1], x[3].building_type_name>> = k}})]

building_count_chart ==
    /\ Serving
    /\ resp = NoResp
    /\ resp' = [op |-> "building_count_chart", total_buildings |-> BuildingCounts(db)]
    /\ UNCHANGED <<db, csv, csv_exists, run, pc, df, type_map, rowIdx, start, loaded, log>>

\* figures.py lines 79-88: the mean of the metric per borough, over the usage
\* rows of the buildings of one type whose borough is a row of Borough.
AvgEnergy(d, metric, building_type_filter) ==
    LET frame == FrameOf({m \in TypedUsage(d) :
                             /\ m[1].borough_name \in d.borough
                             /\ m[3].building_type_name = building_type_filter},
                         metric)
    IN  [b \in ColumnValues(frame, "borough_name") |->
            MeanOf(Group(frame, "borough_name", b), "value")]

create_avg_energy_chart ==
    \E metric \in Metrics, building_type_filter \in TypeFilters :
        /\ Serving
        /\ resp = NoResp
        /\ resp' = [op |-> "create_avg_energy_chart",
                    metric |-> metric,
                    building_type |-> building_type_filter,
                    df_avg |-> AvgEnergy(db, metric, building_type_filter)]
        /\ UNCHANGED <<db, csv, csv_exists, run, pc, df, type_map, rowIdx, start, loaded, log>>

\* The (latitude, longitude, value) points of a frame.
Points(frame) ==
    [i \in DOMAIN frame |->
        [latitude |-> frame[i].latitude, longitude |-> frame[i].longitude,
         value |-> frame[i].value]]

\* figures.py lines 122-151: the points of the buildings of one type, or the
\* figure without data.
Geomap(d, metric, building_type_filter) ==
    LET frame == FrameOf({m \in TypedUsage(d) :
                             m[3].building_type_name = building_type_filter},
                         metric)
    IN  IF DOMAIN frame = {}
        THEN [title |-> "No data available for selected filters", points |-> <<>>]
        ELSE [title |-> "Energy Demand Map", points |-> Points(frame)]

create_geomap_figure ==
    \E metric \in Metrics, building_type_filter \in TypeFilters :
        /\ Serving
        /\ resp = NoResp
        /\ resp' = [op |-> "create_geomap_figure",
                    metric |-> metric,
                    building_type |-> building_type_filter,
                    fig |-> Geomap(db, metric, building_type_filter)]
        /\ UNCHANGED <<db, csv, csv_exists, run, pc, df, type_map, rowIdx, start, loaded, log>>

\* The frame of generate_pie_chart_by_borough, lines 164-173.
\* A mutant of PieFrame: the WHERE clause on the borough is missing.
PieFrameAllBoroughs(d, selected_borough) ==
    FrameOf(TypedUsage(d), "kwh")

\* figures.py lines 164-173: the usage rows of the borough's buildings.
PieFrame(d, selected_borough) ==
    FrameOf({m \in TypedUsage(d) : m[1].borough_name = selected_borough}, "kwh")

\* A mutant of PieChart: the mean of each type is shown, not the sum.
PieChartOfMeans(d, selected_borough) ==
    LET frame == PieFrame(d, selected_borough)
    IN  IF DOMAIN frame = {}
        THEN [title |-> "No data for", names |-> {"No data"},
              values |-> [n \in {"No data"} |-> 1]]
        ELSE [title |-> "Energy Use by Building Type in",
              names |-> ColumnValues(frame, "building_type_name"),
              values |-> [n \in ColumnValues(frame, "building_type_name") |->
                             SumOf(Group(frame, "building_type_name", n), "kwh")
                                \div Cardinality(DOMAIN Group(frame, "building_type_name", n))]]

\* Lines 175-193: the placeholder pie for an empty frame, or the sum of kwh
\* per building type name.
PieChart(d, selected_borough) ==
    LET frame == PieFrame(d, selected_borough)
    IN  IF DOMAIN frame = {}
        THEN [title |-> "No data for", names |-> {"No data"},
              values |-> [n \in {"No data"} |-> 1]]
        ELSE [title |-> "Energy Use by Building Type in",
              names |-> ColumnValues(frame, "building_type_name"),
              values |-> [n \in ColumnValues(frame, "building_type_name") |->
                             SumOf(Group(frame, "building_type_name", n), "kwh")]]

\* A mutant of generate_pie_chart_by_borough: the placeholder is stored as a
\* building type when the borough has no data.
generate_pie_chart_by_borough_Storing ==
    \E selected_borough \in BoroughArgs :
        /\ Serving
        /\ resp = NoResp
        /\ resp' = [op |-> "generate_pie_chart_by_borough",
                    borough |-> selected_borough,
                    fig |-> PieChart(db, selected_borough)]
        /\ db' = IF DOMAIN PieFrame(db, selected_borough) = {}
                 THEN [db EXCEPT !.building_type = AddTypes(@, <<"No data">>)]
                 ELSE db
        /\ UNCHANGED <<csv, csv_exists, run, pc, df, type_map, rowIdx, start, loaded, log>>

generate_pie_chart_by_borough ==
    \E selected_borough \in BoroughArgs :
        /\ Serving
        /\ resp = NoResp
        /\ resp' = [op |-> "generate_pie_chart_by_borough",
                    borough |-> selected_borough,
                    fig |-> PieChart(db, selected_borough)]
        /\ UNCHANGED <<db, csv, csv_exists, run, pc, df, type_map, rowIdx, start, loaded, log>>

\* figures.py lines 206-236: the density points of a borough, or the single
\* default point (51.5074, -0.1278) when it has no usage row.
Heatmap(d, borough) ==
    LET ms == {m \in d.building \X d.energy_usage :
                  m[1].building_id = m[2].building_id /\ m[1].borough_name = borough}
        at(i) == CHOOSE m \in ms : m[2].usage_id = i
        frame == [i \in {m[2].usage_id : m \in ms} |->
                     [latitude |-> at(i)[1].latitude,
                      longitude |-> at(i)[1].longitude,
                      value |-> at(i)[2].kwh]]
    IN  IF DOMAIN frame = {}
        THEN [title |-> "No data available for",
              points |-> <<[latitude |-> 51507400, longitude |-> -127800]>>]
        ELSE [title |-> "Energy Demand Density in", points |-> Points(frame)]

create_energy_heatmap ==
    \E borough \in BoroughArgs :
        /\ Serving
        /\ resp = NoResp
        /\ resp' = [op |-> "create_energy_heatmap",
                    borough |-> borough,
                    fig |-> Heatmap(db, borough)]
        /\ UNCHANGED <<db, csv, csv_exists, run, pc, df, type_map, rowIdx, start, loaded, log>>

\* The members of a list.
Range(q) == {q[i] : i \in 1..Len(q)}

\* A mutant of generate_building_type_focus_data: both charts are always
\* drawn.
generate_building_type_focus_data_AllCharts(d, building_type, boroughs, metrics) ==
    LET frame == FrameOf({m \in TypedUsage(d) :
                             /\ m[3].building_type_name = building_type
                             /\ m[1].borough_name \in Range(boroughs)},
                         "kwh")
        summary == [b \in ColumnValues(frame, "borough_name") |->
                       [kwh |-> MeanOf(Group(frame, "borough_name", b), "kwh"),
                        peak_kw |-> MeanOf(Group(frame, "borough_name", b), "peak_kw")]]
    IN  IF DOMAIN frame = {}
        THEN [df |-> frame, chart_data |-> <<>>,
              table_html |-> Some("No data found for the selected filters.")]
        ELSE [df |-> frame,
              chart_data |-> [metric \in Metrics |->
                                 [b \in DOMAIN summary |-> summary[b][metric]]],
              table_html |-> Some(summary)]

\* report_utils.py lines 126-193, generate_building_type_focus_data: the raw
\* frame, the charts drawn (by metric) and the table of means per borough;
\* for an empty frame no chart and the no-data paragraph.
generate_building_type_focus_data(d, building_type, boroughs, metrics) ==
    LET frame == FrameOf({m \in TypedUsage(d) :
                             /\ m[3].building_type_name = building_type
                             /\ m[1].borough_name \in Range(boroughs)},
                         "kwh")
        summary == [b \in ColumnValues(frame, "borough_name") |->
                       [kwh |-> MeanOf(Group(frame, "borough_name", b), "kwh"),
                        peak_kw |-> MeanOf(Group(frame, "borough_name", b), "peak_kw")]]
    IN  IF DOMAIN frame = {}
        THEN [df |-> frame, chart_data |-> <<>>,
              table_html |-> Some("No data found for the selected filters.")]
        ELSE [df |-> frame,
              chart_data |-> [metric \in Metrics \cap Range(metrics) |->
                                 [b \in DOMAIN summary |-> summary[b][metric]]],
              table_html |-> Some(summary)]

\* The text of a query parameter is a list of pieces, "," being a piece of
\* its own: "Camden,Westminster" is <<"Camden", ",", "Westminster">> and ""
\* is <<>>.

\* A mutant of Split: empty fields are left out of the list.
RECURSIVE SplitNonEmpty(_)
SplitNonEmpty(text) ==
    IF \A i \in 1..Len(text) : text[i] # ","
    THEN IF text = <<>> THEN <<>> ELSE <<text>>
    ELSE LET i == CHOOSE j \in 1..Len(text) :
                      text[j] = "," /\ \A k \in 1..(j - 1) : text[k] # ","
         IN  (IF i = 1 THEN <<>> ELSE <<SubSeq(text, 1, i - 1)>>)
                \o SplitNonEmpty(SubSeq(text, i + 1, Len(text)))

\* str.split(","): the fields between the commas; one empty field for "".
RECURSIVE Split(_)
Split(text) ==
    IF \A i \in 1..Len(text) : text[i] # "," THEN <<text>>
    ELSE LET i == CHOOSE j \in 1..Len(text) :
                      text[j] = "," /\ \A k \in 1..(j - 1) : text[k] # ","
         IN  <<SubSeq(text, 1, i - 1)>> \o Split(SubSeq(text, i + 1, Len(text)))

\* The string a field of one piece stands for.
NameOf(field) == IF field = <<>> THEN "" ELSE field[1]

Names(fields) == [i \in 1..Len(fields) |-> NameOf(fields[i])]

\* Python truthiness of an optional text and of a list.
TruthyText(t) == ~IsNone(t) /\ t[1] # <<>>

TruthyList(q) == Len(q) > 0

\* The query strings of /reports/building-type-focus/generate: each parameter
\* is absent (None) or present with a text.
FocusRequest(building_type, boroughs, metrics, output_format) ==
    [building_type |-> building_type, boroughs |-> boroughs, metrics |-> metrics,
     output_format |-> output_format]

FocusRequests ==
    {FocusRequest(Some(<<"Residential">>), Some(<<"Camden", ",", "Westminster">>),
                  Some(<<"kwh", ",", "peak_kw">>), Some("html")),
     FocusRequest(Some(<<"Mixed-Use">>), Some(<<"Camden">>), Some(<<"kwh">>), None),
     FocusRequest(None, Some(<<"Camden">>), Some(<<"kwh">>), None),
     FocusRequest(Some(<<>>), Some(<<"Camden">>), Some(<<"kwh">>), None),
     FocusRequest(Some(<<"Residential">>), None, Some(<<"kwh">>), None),
     FocusRequest(Some(<<"Residential">>), Some(<<>>), Some(<<"kwh">>), None),
     FocusRequest(Some(<<"Residential">>), Some(<<"Camden">>), None, None),
     FocusRequest(Some(<<"Residential">>), Some(<<"Camden">>), Some(<<>>), None),
     FocusRequest(Some(<<"Residential">>), Some(<<"Camden", ",", "Westminster">>),
                  Some(<<"invalid">>), Some("html")),
     FocusRequest(Some(<<"Residential">>), Some(<<"Camden", ",", "Westminster">>),
                  Some(<<"kwh", ",", "peak_kw">>), Some("csv")),
     FocusRequest(Some(<<"Mixed-Use">>), Some(<<"Camden">>), Some(<<"peak_kw">>),
                  Some("csv"))}

\* request.args.get(name, default).
ArgsGet(arg, default) == IF IsNone(arg) THEN default ELSE arg

\* repr of a float holding a whole number, as to_csv writes it.
FloatRepr(n) == (IF n < 0 THEN <<"-">> ELSE <<>>) \o Digits(Abs(n)) \o <<".", "0">>

\* routes.py lines 346-353: the columns of the raw frame kept for the CSV.
ColumnsToInclude(metrics) ==
    <<"borough_name">>
        \o (IF "kwh" \in Range(metrics) THEN <<"kwh">> ELSE <<>>)
        \o (IF "peak_kw" \in Range(metrics) THEN <<"peak_kw">> ELSE <<>>)

\* routes.py lines 359-366: the names the kept columns are given.
Renamed(column) ==
    CASE column = "borough_name" -> "Borough"
      [] column = "kwh" -> "Average Annual Use (kWh)"
      [] column = "peak_kw" -> "Average Peak Demand (kW)"

\* routes.py lines 356-371, df_selected_metrics.to_csv(index=False): the
\* header line, then one line per row of the raw frame.
FocusCsv(frame, metrics) ==
    LET order == IndexOrder(DOMAIN frame)
        columns == ColumnsToInclude(metrics)
        cell(row, column) == IF column = "borough_name" THEN NameText(row[column])
                             ELSE FloatRepr(row[column])
    IN  CsvLine([c \in 1..Len(columns) |-> NameText(Renamed(columns[c]))])
        \o CsvLines([k \in 1..Len(order) |->
                        [c \in 1..Len(columns) |-> cell(frame[order[k]], columns[c])]])

\* routes.py lines 315-388.  request.args.get("boroughs") is None for an
\* absent parameter and None has no split.  `returned` keeps what
\* generate_building_type_focus_data gave back to the handler.
FocusReport(d, request) ==
    LET building_type == request.building_type
        boroughs == Names(Split(request.boroughs[1]))
        metrics == Names(Split(ArgsGet(request.metrics, Some(<<>>))[1]))
        output_format == ArgsGet(request.output_format, Some("html"))[1]
        ret == generate_building_type_focus_data(d, NameOf(building_type[1]),
                                                 boroughs, metrics)
    IN  IF IsNone(request.boroughs)
        THEN [raised |-> Some("AttributeError"), computed |-> FALSE,
              template |-> None, message |-> None]
        ELSE IF ~TruthyText(building_type) \/ ~TruthyList(boroughs) \/ ~TruthyList(metrics)
        THEN [raised |-> None, computed |-> FALSE,
              template |-> Some("report_result.html"),
              message |-> Some("Missing required parameters.")]
        ELSE IF DOMAIN ret.df = {}
        THEN [raised |-> None, computed |-> TRUE, returned |-> ret,
              boroughs |-> boroughs, metrics |-> metrics,
              template |-> Some("report_result.html"),
              message |-> Some("No data found for selected criteria.")]
        ELSE IF output_format = "csv"
        THEN [raised |-> None, computed |-> TRUE, returned |-> ret,
              boroughs |-> boroughs, metrics |-> metrics,
              template |-> None, message |-> None,
              body |-> Some(FocusCsv(ret.df, metrics))]
        ELSE [raised |-> None, computed |-> TRUE, returned |-> ret,
              boroughs |-> boroughs, metrics |-> metrics,
              template |-> Some("building_type_focus_report.html"),
              message |-> None,
              chart_data |-> ret.chart_data,
              table_html |-> ret.table_html]

building_type_focus_report ==
    \E request \in FocusRequests :
        /\ Serving
        /\ resp = NoResp
        /\ resp' = [op |-> "building_type_focus_report",
                    request |-> request,
                    answer |-> FocusReport(db, request)]
        /\ UNCHANGED <<db, csv, csv_exists, run, pc, df, type_map, rowIdx, start, loaded, log>>

\* Requests are served one at a time: the answer is delivered before the next
\* request is taken.
Deliver ==
    /\ resp # NoResp
    /\ resp' = NoResp
    /\ UNCHANGED <<db, csv, csv_exists, run, pc, df, type_map, rowIdx, start, loaded, log>>

Aggregation ==
    \/ borough_summary_generate
    \/ create_high_demand_chart
    \/ visualisation_high_demand
    \/ building_count_chart
    \/ create_avg_energy_chart
    \/ create_geomap_figure
    \/ generate_pie_chart_by_borough
    \/ create_energy_heatmap
    \/ building_type_focus_report
    \/ Deliver

Next ==
    \/ Loader
    \/ Aggregation

Spec == Init /\ [][Next]_vars

----------------------------------------------------------------------------
(* Database errors in the row loop, add_data.py lines 66-96 *)

\* Where one iteration can meet a database error: at the flush of the
\* Building, inside the inner try, or at the commit of the else clause, which
\* writes the EnergyUsage and is outside the inner try.
RowFailPoints == {"flush", "commit"}

\* One iteration of the row loop in which the database raises.  An error at
\* the flush is caught by the inner handler: rollback, warning, next row.
\* An error at the commit leaves the loop and is caught by the handler of
\* lines 94-96: rollback, error message, and add_buildings_and_energy
\* returns.
LoadRowFails ==
    /\ pc = "rows"
    /\ rowIdx <= Len(df)
    /\ df[rowIdx].BUILDING_TYPE \in DOMAIN type_map
    /\ \E point \in RowFailPoints :
          IF point = "flush"
          THEN /\ rowIdx' = rowIdx + 1
               /\ log' = log \cup {"Skipped row"}
               /\ UNCHANGED pc
          ELSE /\ pc' = IF Caught("SQLAlchemyError") THEN "done" ELSE "raised"
               /\ log' = log \cup {"Failed bulk insert for buildings"}
               /\ UNCHANGED rowIdx
    /\ UNCHANGED <<db, csv, csv_exists, run, df, type_map, start, loaded, resp>>

\* The loader alone, with database errors in the row loop.
FaultNext ==
    \/ Loader
    \/ LoadRowFails

FaultSpec == Init /\ [][FaultNext]_vars

----------------------------------------------------------------------------
(* Two loads at once, add_data.py lines 99-126 run by two callers *)

\* Nothing in add_all_data or in create_app (lines 73-92) takes a lock: the
\* steps of two invocations interleave statement by statement.  A SELECT
\* sees what has been committed; the INSERTs of one transaction and its
\* commit are one step, as the engine serialises writers.
Step(p, position, fields) ==
    run' = [run EXCEPT ![p] = [pc |-> position, todo |-> fields.todo,
                                 type_map |-> fields.type_map,
                                 rowIdx |-> fields.rowIdx]]

\* Lines 101-107: read and clean the CSV.
Invoke(p) ==
    /\ run[p].pc = "idle"
    /\ Step(p, IF csv_exists THEN "boroughs"
               ELSE IF Caught("FileNotFoundError") THEN "done" ELSE "raised", run[p])
    /\ UNCHANGED <<db, csv, csv_exists, pc, df, type_map, rowIdx, start, loaded, log, resp>>

\* Line 117 for Borough: db.session.query(model).count() == 0.
CountBoroughs(p) ==
    /\ run[p].pc = "boroughs"
    /\ Step(p, IF ShouldPopulate(Cardinality(db.borough)) THEN "get_boroughs"
               ELSE "building_types", run[p])
    /\ UNCHANGED <<db, csv, csv_exists, pc, df, type_map, rowIdx, start, loaded, log, resp>>

\* add_boroughs lines 32-35: db.session.get for every unique name; those not
\* found are added to the session.
GetBoroughs(p) ==
    /\ run[p].pc = "get_boroughs"
    /\ Step(p, "commit_boroughs",
            [run[p] EXCEPT !.todo = ColumnValues(clean_dataframe(csv), "BOROUGH") \ db.borough])
    /\ UNCHANGED <<db, csv, csv_exists, pc, df, type_map, rowIdx, start, loaded, log, resp>>

\* add_boroughs lines 36-40: the commit.  borough_name is the primary key: a
\* name committed meanwhile by the other invocation makes the commit raise
\* IntegrityError, which is caught and rolled back.
CommitBoroughs(p) ==
    /\ run[p].pc = "commit_boroughs"
    /\ db' = IF run[p].todo \cap db.borough = {}
             THEN [db EXCEPT !.borough = @ \cup run[p].todo]
             ELSE db
    /\ Step(p, "building_types", [run[p] EXCEPT !.todo = {}])
    /\ UNCHANGED <<csv, csv_exists, pc, df, type_map, rowIdx, start, loaded, log, resp>>

\* Line 117 for BuildingType.
CountBuildingTypes(p) ==
    /\ run[p].pc = "building_types"
    /\ Step(p, IF ShouldPopulate(Cardinality(db.building_type)) THEN "get_building_types"
               ELSE "buildings", run[p])
    /\ UNCHANGED <<db, csv, csv_exists, pc, df, type_map, rowIdx, start, loaded, log, resp>>

\* add_building_types lines 45-49: filter_by(building_type_name=name).first()
\* for every unique name; those not found are added to the session.
GetBuildingTypes(p) ==
    /\ run[p].pc = "get_building_types"
    /\ Step(p, "commit_building_types",
            [run[p] EXCEPT !.todo =
                {i \in 1..Len(Unique(Column(clean_dataframe(csv), "BUILDING_TYPE"))) :
                    \A t \in db.building_type :
                        t.building_type_name #
                            Unique(Column(clean_dataframe(csv), "BUILDING_TYPE"))[i]}])
    /\ UNCHANGED <<db, csv, csv_exists, pc, df, type_map, rowIdx, start, loaded, log, resp>>

\* The names at the positions of todo, numbered in order from the next free
\* building_type_id.
RECURSIVE NumberTypes(_, _, _)
NumberTypes(types, names, todo) ==
    IF todo = {} THEN types
    ELSE LET i == CHOOSE k \in todo : \A j \in todo : k <= j
             id == NextId({t.building_type_id : t \in types})
         IN  NumberTypes(types \cup {BuildingType(id, names[i])}, names, todo \ {i})

\* add_building_types lines 50-54: the commit.  models.py lines 42-58 declare
\* no unique constraint on building_type_name, so the INSERT of a name the
\* other invocation has committed meanwhile succeeds.
CommitBuildingTypes(p) ==
    /\ run[p].pc = "commit_building_types"
    /\ db' = [db EXCEPT !.building_type =
                 NumberTypes(@, Unique(Column(clean_dataframe(csv), "BUILDING_TYPE")),
                             run[p].todo)]
    /\ Step(p, "buildings", [run[p] EXCEPT !.todo = {}])
    /\ UNCHANGED <<csv, csv_exists, pc, df, type_map, rowIdx, start, loaded, log, resp>>

\* Line 117 for Building.
CountBuildings(p) ==
    /\ run[p].pc = "buildings"
    /\ Step(p, IF ShouldPopulate(Cardinality(db.building)) THEN "type_map" ELSE "done",
            run[p])
    /\ UNCHANGED <<db, csv, csv_exists, pc, df, type_map, rowIdx, start, loaded, log, resp>>

\* add_buildings_and_energy lines 61-64: the lookup map.
BuildTypeMap(p) ==
    /\ run[p].pc = "type_map"
    /\ \E tm \in TypeMaps(db) :
          Step(p, "rows", [run[p] EXCEPT !.type_map = tm, !.rowIdx = 1])
    /\ UNCHANGED <<db, csv, csv_exists, pc, df, type_map, rowIdx, start, loaded, log, resp>>

\* One iteration of the loop of lines 66-90, as in LoadRow.
InsertNextRow(p) ==
    /\ run[p].pc = "rows"
    /\ run[p].rowIdx <= Len(csv)
    /\ LET row == clean_dataframe(csv)[run[p].rowIdx]
           tm == run[p].type_map
       IN  IF row.BUILDING_TYPE \notin DOMAIN tm
           THEN /\ Step(p, IF Caught("KeyError") THEN "done" ELSE "raised", run[p])
                /\ UNCHANGED db
           ELSE IF FlushFails(db, row, tm[row.BUILDING_TYPE])
           THEN /\ Step(p, "rows", [run[p] EXCEPT !.rowIdx = @ + 1])
                /\ UNCHANGED db
           ELSE /\ db' = InsertRow(db, row, tm[row.BUILDING_TYPE])
                /\ Step(p, "rows", [run[p] EXCEPT !.rowIdx = @ + 1])
    /\ UNCHANGED <<csv, csv_exists, pc, df, type_map, rowIdx, start, loaded, log, resp>>

\* The loop is exhausted: the invocation returns.
Return(p) ==
    /\ run[p].pc = "rows"
    /\ run[p].rowIdx > Len(csv)
    /\ Step(p, "done", run[p])
    /\ UNCHANGED <<db, csv, csv_exists, pc, df, type_map, rowIdx, start, loaded, log, resp>>

ConcurrentNext ==
    \E p \in Loaders :
        \/ Invoke(p)
        \/ CountBoroughs(p)
        \/ GetBoroughs(p)
        \/ CommitBoroughs(p)
        \/ CountBuildingTypes(p)
        \/ GetBuildingTypes(p)
        \/ CommitBuildingTypes(p)
        \/ CountBuildings(p)
        \/ BuildTypeMap(p)
        \/ InsertNextRow(p)
        \/ Return(p)

ConcurrentSpec == Init /\ [][ConcurrentNext]_vars

----------------------------------------------------------------------------
(* The news feed, routes.py lines 391-431 *)

MaxArticles == 2

\* A headline is a sequence of characters.
Headlines ==
    {<<"U", "K", " ", "E", "n", "e", "r", "g", "y">>,
     <<"E", "N", "E", "R", "G", "Y">>,
     <<"W", "i", "n", "d">>}

\* A JSON object is a function from the keys it holds.
Without(obj, key) == [k \in DOMAIN obj \ {key} |-> obj[k]]

FullArticle(headline) ==
    [fields |-> [headline |-> headline, trailText |-> "trail"],
     webUrl |-> "https://example.com/article",
     webPublicationDate |-> <<"2024-04-01", "T12:00:00Z">>,
     sectionName |-> "Business"]

\* The articles a payload can hold: complete ones, and ones with a key
\* missing, which the handler reads or not according to the headline.
Articles ==
    {FullArticle(h) : h \in Headlines}
    \cup {Without(FullArticle(<<"E", "N", "E", "R", "G", "Y">>), "webUrl"),
          Without(FullArticle(<<"W", "i", "n", "d">>), "webUrl"),
          Without(FullArticle(<<"W", "i", "n", "d">>), "fields"),
          [FullArticle(<<"W", "i", "n", "d">>) EXCEPT !.fields = Without(@, "headline")],
          [FullArticle(<<"E", "N", "E", "R", "G", "Y">>) EXCEPT
              !.fields = Without(@, "trailText")]}

\* What the request to the feed can come to: an exception of requests.get, an
\* exception of raise_for_status, or a JSON body.
EsgOutcomes ==
    {[kind |-> "ConnectionError"], [kind |-> "HTTPError"]}
    \cup {[kind |-> "json", data |-> [response |-> [results |-> p]]] :
             p \in UNION {[1..n -> Articles] : n \in 0..MaxArticles}}
    \cup {[kind |-> "json", data |-> [response |-> [status |-> "ok"]]],
          [kind |-> "json", data |-> [status |-> "error"]]}

\* str.lower() on the characters used.
LowerChar(c) ==
    CASE c = "E" -> "e" [] c = "N" -> "n" [] c = "R" -> "r" [] c = "G" -> "g"
      [] c = "Y" -> "y" [] c = "U" -> "u" [] c = "K" -> "k" [] c = "W" -> "w"
      [] OTHER -> c

Lower(text) == [i \in 1..Len(text) |-> LowerChar(text[i])]

\* sub in text.
Contains(text, sub) ==
    \E i \in 0..(Len(text) - Len(sub)) : SubSeq(text, i + 1, i + Len(sub)) = sub

energy == <<"e", "n", "e", "r", "g", "y">>

\* data.get(key, default).
DictGet(obj, key, default) == IF key \in DOMAIN obj THEN obj[key] ELSE default

\* The keys one iteration of the comprehension reads: the headline for the
\* condition and, when it holds, the other fields.  A key that is not there
\* raises KeyError.
ArticleRaises(article) ==
    \/ "fields" \notin DOMAIN article
    \/ "headline" \notin DOMAIN article.fields
    \/ /\ Contains(Lower(article.fields.headline), energy)
       /\ \/ "webUrl" \notin DOMAIN article
          \/ "trailText" \notin DOMAIN article.fields
          \/ "webPublicationDate" \notin DOMAIN article
          \/ "sectionName" \notin DOMAIN article

Listed(article) ==
    [title |-> article.fields.headline,
     url |-> article.webUrl,
     summary |-> article.fields.trailText,
     published |-> article.webPublicationDate[1],
     section |-> article.sectionName]

RECURSIVE Comprehension(_)
\* The list comprehension over results that raise nothing.
Comprehension(results) ==
    IF results = <<>> THEN <<>>
    ELSE (IF Contains(Lower(Head(results).fields.headline), energy)
          THEN <<Listed(Head(results))>> ELSE <<>>)
         \o Comprehension(Tail(results))

\* The exception the try block of esg ends with, if any.
EsgRaises(outcome) ==
    IF outcome.kind # "json" THEN Some(outcome.kind)
    ELSE LET results == DictGet(DictGet(outcome.data, "response", <<>>), "results", <<>>)
         IN  IF \E i \in 1..Len(results) : ArticleRaises(results[i])
             THEN Some("KeyError") ELSE None

\* A mutant of EsgCaught: only the exceptions of requests are caught.
EsgCaughtRequestsOnly(exc) == exc \in {"ConnectionError", "HTTPError"}

\* except Exception.
EsgCaught(exc) == TRUE

esg ==
    \E outcome \in EsgOutcomes :
        LET exc == EsgRaises(outcome)
            results == DictGet(DictGet(outcome.data, "response", <<>>), "results", <<>>)
        IN  /\ resp = NoResp
            /\ resp' = IF IsNone(exc)
                       THEN [op |-> "esg", outcome |-> outcome, raised |-> None,
                             articles |-> Comprehension(results),
                             template |-> Some("esg.html")]
                       ELSE IF EsgCaught(exc[1])
                       THEN [op |-> "esg", outcome |-> outcome, raised |-> None,
                             articles |-> <<>>, template |-> Some("esg.html")]
                       ELSE [op |-> "esg", outcome |-> outcome, raised |-> exc,
                             articles |-> <<>>, template |-> None]
            /\ UNCHANGED <<db, csv, csv_exists, run, pc, df, type_map, rowIdx, start, loaded, log>>

\* The handler does not touch the store: it is checked on its own, on every
\* initial store.
EsgNext ==
    \/ esg
    \/ Deliver

EsgSpec == Init /\ [][EsgNext]_vars

----------------------------------------------------------------------------
(* Vocabulary of the properties, stated on the store itself *)

\* The usage rows of the buildings of borough B.
UsageOfBorough(d, B) ==
    {u \in d.energy_usage :
        \E b \in d.building : b.building_id = u.building_id /\ b.borough_name = B}

\* The usage rows of borough B whose building has type name T ("" for any).
UsageOfBoroughAndType(d, B, T) ==
    {u \in UsageOfBorough(d, B) :
        T # "" =>
            \E b \in d.building, t \in d.building_type :
                /\ b.building_id = u.building_id
                /\ t.building_type_id = b.building_type_id
                /\ t.building_type_name = T}

RECURSIVE SumKwh(_)
SumKwh(us) ==
    IF us = {} THEN 0
    ELSE LET u == CHOOSE x \in us : TRUE IN u.kwh + SumKwh(us \ {u})

\* A request of kind op is answered in this step.
Answers(op) == resp = NoResp /\ resp'.op = op

SummaryAnswered == Answers("borough_summary_generate")

\* The load of the running add_all_data is over.
LoadOver == pc \in {"done", "raised"}

StartPopulated ==
    start.borough # {} /\ start.building_type # {} /\ start.building # {}

\* The 3-row dataset has been loaded into an empty store, without any
\* database error.
ScenarioLoaded == pc = "done" /\ csv = ScenarioRows /\ start = EmptyDb /\ log = {}

----------------------------------------------------------------------------
(* C1 *)

\* C1: a run of add_all_data on a store whose Borough, BuildingType and
\* Building tables are all non-empty inserts nothing: the four row counts
\* stay what they were when the run began.
C1_RepeatedLoadKeepsCounts ==
    StartPopulated => Counts(db) = Counts(start)

\* A second run, after a first run that loaded rows, has completed.
C1_Witness ==
    /\ pc = "done"
    /\ StartPopulated
    /\ start # PopulatedDb
    /\ Len(df) > 0

----------------------------------------------------------------------------
(* C2 *)

\* C2 as stated: for every borough B with at least one building, the summary
\* for (B, no type, threshold 0) returns total_kwh equal to the sum of kwh
\* over the usage rows of B's buildings.
C2_TotalKwhForBoroughWithBuilding ==
    [][(/\ SummaryAnswered
        /\ resp'.building_type = "" /\ resp'.threshold = 0
        /\ \E b \in db.building : b.borough_name = resp'.borough)
       => (/\ ~IsNone(resp'.ret.summary_stats)
           /\ resp'.ret.summary_stats[1].total_kwh
                = SumKwh(UsageOfBorough(db, resp'.borough)))]_vars

\* C2 amended: for every borough B with at least one usage row, the summary
\* for (B, no type, threshold 0) returns total_kwh equal to the sum of kwh
\* over the usage rows of B's buildings; a borough whose buildings have no
\* usage row gets the empty result.
C2_TotalKwhForBoroughWithUsage ==
    [][(/\ SummaryAnswered
        /\ resp'.building_type = "" /\ resp'.threshold = 0)
       => IF UsageOfBorough(db, resp'.borough) # {}
          THEN /\ ~IsNone(resp'.ret.summary_stats)
               /\ resp'.ret.summary_stats[1].total_kwh
                    = SumKwh(UsageOfBorough(db, resp'.borough))
          ELSE IsNone(resp'.ret.summary_stats)]_vars

\* A summary at threshold 0 over usage rows that include a negative kwh.
C2_Witness ==
    /\ resp.op = "borough_summary_generate"
    /\ resp.building_type = "" /\ resp.threshold = 0
    /\ ~IsNone(resp.ret.df)
    /\ \E i \in DOMAIN resp.ret.df[1] : resp.ret.df[1][i].kwh < 0
    /\ Cardinality(DOMAIN resp.ret.df[1]) > 1

----------------------------------------------------------------------------
(* C3 *)

\* The usage rows the summary selects: those of the borough and type, with
\* kwh >= threshold when the threshold is not 0.
SelectedUsage(d, B, T, th) ==
    {u \in UsageOfBoroughAndType(d, B, T) : th # 0 => u.kwh >= th}

\* C3: in every non-empty summary, total_buildings is the number of distinct
\* building ids of the selected rows, and so at most the number of rows.
C3_TotalBuildingsDistinct ==
    [][(SummaryAnswered /\ ~IsNone(resp'.ret.df))
       => LET sel == SelectedUsage(db, resp'.borough, resp'.building_type,
                                   resp'.threshold)
              stats == resp'.ret.summary_stats[1]
          IN  /\ stats.total_buildings = Cardinality({u.building_id : u \in sel})
              /\ stats.total_buildings <= Cardinality(DOMAIN resp'.ret.df[1])]_vars

\* A summary whose building has several usage rows: fewer buildings than rows.
C3_Witness ==
    /\ resp.op = "borough_summary_generate"
    /\ ~IsNone(resp.ret.df)
    /\ resp.ret.summary_stats[1].total_buildings < Cardinality(DOMAIN resp.ret.df[1])

----------------------------------------------------------------------------
(* C4 *)

\* The usage ids of the returned row-set (none for the empty result).
RowSet(ret) == IF IsNone(ret.df) THEN {} ELSE DOMAIN ret.df[1]

\* C4 as stated: for every threshold t the row-set is exactly the usage rows
\* of the borough (and type) with kwh >= t.
C4_RowSetIsKwhAtLeastThreshold ==
    [][SummaryAnswered
       => RowSet(resp'.ret)
            = {u.usage_id :
                 u \in {x \in UsageOfBoroughAndType(db, resp'.borough,
                                                    resp'.building_type) :
                           x.kwh >= resp'.threshold}}]_vars

\* C4 amended: for a threshold t other than 0 the row-set is exactly the
\* usage rows of the borough (and type) with kwh >= t; for t = 0 no kwh
\* filter is applied and the row-set is all usage rows of the borough (and
\* type), whatever their kwh.
C4_RowSetIsKwhAtLeastNonZeroThreshold ==
    [][SummaryAnswered
       => LET all == UsageOfBoroughAndType(db, resp'.borough, resp'.building_type)
          IN  RowSet(resp'.ret)
                = {u.usage_id :
                     u \in IF resp'.threshold # 0
                           THEN {x \in all : x.kwh >= resp'.threshold}
                           ELSE all}]_vars

\* A summary whose threshold equals the kwh of a returned row while the
\* borough has a row below the threshold.
C4_Witness ==
    /\ resp.op = "borough_summary_generate"
    /\ resp.threshold # 0
    /\ ~IsNone(resp.ret.df)
    /\ \E i \in DOMAIN resp.ret.df[1] : resp.ret.df[1][i].kwh = resp.threshold
    /\ \E u \in UsageOfBorough(db, resp.borough) :
          u.kwh < resp.threshold /\ u.usage_id \notin DOMAIN resp.ret.df[1]

----------------------------------------------------------------------------
(* C5 *)

\* C5 as stated: after the 3-row dataset is loaded, the Camden summary with
\* threshold 3500 and no type returns total_buildings = 1, total_kwh = 3000.
C5_Camden3500HasOneBuilding ==
    [][(/\ ScenarioLoaded /\ SummaryAnswered
        /\ resp'.borough = "Camden" /\ resp'.building_type = ""
        /\ resp'.threshold = 3500)
       => (/\ ~IsNone(resp'.ret.summary_stats)
           /\ resp'.ret.summary_stats[1].total_buildings = 1
           /\ resp'.ret.summary_stats[1].total_kwh = 3000)]_vars

\* C5 amended: after the 3-row dataset is loaded, the Camden summary with
\* threshold 3500 and no type is the empty result (no Camden row has
\* kwh >= 3500); with threshold 3000 it returns total_buildings = 1 and
\* total_kwh = 3000.
C5_Camden3500IsEmpty ==
    [][(/\ ScenarioLoaded /\ SummaryAnswered
        /\ resp'.borough = "Camden" /\ resp'.building_type = ""
        /\ resp'.threshold \in {3000, 3500})
       => IF resp'.threshold = 3500
          THEN resp'.ret = NoneResult /\ resp'.message = Some(NoDataMessage)
          ELSE /\ ~IsNone(resp'.ret.summary_stats)
               /\ resp'.ret.summary_stats[1].total_buildings = 1
               /\ resp'.ret.summary_stats[1].total_kwh = 3000]_vars

\* The Camden summary at threshold 3500 has been answered on the scenario.
C5_Witness ==
    /\ ScenarioLoaded
    /\ resp.op = "borough_summary_generate"
    /\ resp.borough = "Camden" /\ resp.building_type = ""
    /\ resp.threshold = 3500
    /\ IsNone(resp.ret.df)

----------------------------------------------------------------------------
(* C6 *)

\* C6: after the 3-row dataset is loaded into an empty store, the Camden
\* summary with no type and threshold 0 returns total_buildings = 2,
\* total_kwh = 4000, avg_kwh = 2000 and avg_peak_kw = 85.
C6_CamdenScenarioSummary ==
    [][(/\ ScenarioLoaded /\ SummaryAnswered
        /\ resp'.borough = "Camden" /\ resp'.building_type = ""
        /\ resp'.threshold = 0)
       => (/\ ~IsNone(resp'.ret.summary_stats)
           /\ resp'.ret.summary_stats[1]
                = [total_buildings |-> 2, total_kwh |-> 4000,
                   avg_kwh |-> [num |-> 2000, den |-> 1],
                   avg_peak_kw |-> [num |-> 85, den |-> 1]])]_vars

\* The Camden summary at threshold 0 has been answered on the scenario.
C6_Witness ==
    /\ ScenarioLoaded
    /\ resp.op = "borough_summary_generate"
    /\ resp.borough = "Camden" /\ resp.building_type = ""
    /\ resp.threshold = 0
    /\ ~IsNone(resp.ret.summary_stats)
    /\ Cardinality(db.building) = 3

----------------------------------------------------------------------------
(* C7 *)

\* C7: when no usage row matches the borough, type and threshold, the
\* summary function returns the sentinel of five None and the route answers
\* with the no-data message on the result template; otherwise a populated
\* report is answered.
C7_EmptySentinelAndMessage ==
    [][SummaryAnswered
       => IF SelectedUsage(db, resp'.borough, resp'.building_type,
                           resp'.threshold) = {}
          THEN /\ resp'.ret = NoneResult
               /\ resp'.message = Some(NoDataMessage)
               /\ resp'.template = "report_result.html"
          ELSE /\ ~IsNone(resp'.ret.df)
               /\ IsNone(resp'.message)]_vars

\* A no-data answer for a borough that has usage rows, all below the
\* threshold.
C7_Witness ==
    /\ resp.op = "borough_summary_generate"
    /\ resp.ret = NoneResult
    /\ resp.message = Some(NoDataMessage)
    /\ resp.threshold # 0
    /\ UsageOfBorough(db, resp.borough) # {}

----------------------------------------------------------------------------
(* C8 *)

\* The building step of the running load has been entered.
RowLoopEntered == rowIdx >= 1

\* The df rows the row loop can load: the type is in the lookup and the
\* borough is stored.
LoadableRows ==
    {i \in 1..Len(df) :
        df[i].BUILDING_TYPE \in DOMAIN type_map /\ df[i].BOROUGH \in db.borough}

\* C8: a df row whose building type is not in the lookup is caught and only
\* that row is skipped: nothing is raised, no row of an unknown type is
\* loaded, and when the load is over every loadable row has been loaded.
C8_UnknownTypeRowOnlySkipped ==
    /\ pc # "raised"
    /\ loaded \subseteq LoadableRows
    /\ (LoadOver /\ RowLoopEntered) => loaded = LoadableRows

----------------------------------------------------------------------------
(* C9 *)

----------------------------------------------------------------------------
(* C10 *)

\* The usage rows of a stored building with kwh strictly above T.
UsageAbove(d, T) ==
    {u \in d.energy_usage :
        u.kwh > T /\ \E b \in d.building : b.building_id = u.building_id}

\* The counts are those of the rows strictly above the threshold, for the
\* boroughs that have such a row.
CountsStrictlyAbove(d, T, counts) ==
    /\ DOMAIN counts = {B \in {b.borough_name : b \in d.building} :
                           UsageOfBorough(d, B) \cap UsageAbove(d, T) # {}}
    /\ \A B \in DOMAIN counts :
          counts[B] = Cardinality(UsageOfBorough(d, B) \cap UsageAbove(d, T))

\* C10 as stated: the chart counts per borough the usage rows with kwh
\* strictly above T, and when no row exceeds T it lists all known boroughs
\* (the rows of Borough), each with 0.
C10_ZeroForAllKnownBoroughs ==
    [][Answers("create_high_demand_chart")
       => IF UsageAbove(db, resp'.threshold) # {}
          THEN CountsStrictlyAbove(db, resp'.threshold, resp'.demand_counts)
          ELSE resp'.demand_counts = [B \in db.borough |-> 0]]_vars

\* C10 amended: the chart counts per borough the usage rows with kwh strictly
\* above T, and when no row exceeds T it lists the boroughs that have at
\* least one usage row, each with 0; a borough without usage rows is absent.
C10_ZeroForBoroughsWithUsage ==
    [][Answers("create_high_demand_chart")
       => IF UsageAbove(db, resp'.threshold) # {}
          THEN CountsStrictlyAbove(db, resp'.threshold, resp'.demand_counts)
          ELSE resp'.demand_counts
                 = [B \in {n \in {b.borough_name : b \in db.building} :
                               UsageOfBorough(db, n) # {}} |-> 0]]_vars

\* A chart whose threshold equals the largest kwh stored: every borough with
\* usage rows is listed with 0.
C10_Witness ==
    /\ resp.op = "create_high_demand_chart"
    /\ \E u \in db.energy_usage : u.kwh = resp.threshold
    /\ DOMAIN resp.demand_counts # {}
    /\ \A B \in DOMAIN resp.demand_counts : resp.demand_counts[B] = 0

----------------------------------------------------------------------------
(* C11 *)

\* The count a chart shows for borough B: 0 when B is absent.
CountFor(counts, B) == IF B \in DOMAIN counts THEN counts[B] ELSE 0

\* The thresholds compared: the ones requested and every kwh stored.
ThresholdsOf(d) == Thresholds \cup {u.kwh : u \in d.energy_usage}

\* C11: for a fixed store and borough, the high-demand count does not grow
\* with the threshold: T1 <= T2 implies count(T2) <= count(T1), a borough
\* absent from a chart counting as 0.  The chart answered at threshold T is
\* compared with the charts of the same store at every other threshold.
C11_HighDemandCountNonIncreasing ==
    [][Answers("create_high_demand_chart")
       => \A T \in ThresholdsOf(db), B \in BoroughArgs \cup db.borough :
             /\ T <= resp'.threshold
                  => CountFor(resp'.demand_counts, B) <= CountFor(DemandCounts(db, T), B)
             /\ resp'.threshold <= T
                  => CountFor(DemandCounts(db, T), B) <= CountFor(resp'.demand_counts, B)]_vars

\* A chart has been drawn for a threshold at which a borough's count is
\* positive and strictly below its count at a lower threshold.
C11_Witness ==
    /\ resp.op = "create_high_demand_chart"
    /\ resp.demand_counts = DemandCounts(db, resp.threshold)
    /\ \E B \in db.borough, T \in ThresholdsOf(db) :
          /\ T < resp.threshold
          /\ CountFor(resp.demand_counts, B) > 0
          /\ CountFor(resp.demand_counts, B) < CountFor(DemandCounts(db, T), B)

----------------------------------------------------------------------------
(* C12 *)

\* C12: for a fixed non-empty population of usage rows and percentiles
\* p1 < p2 among 50, 75, 90, 95, the threshold of p1 is at most that of p2.
C12_ThresholdMonotoneInPercentile ==
    db.energy_usage # {} =>
        \A p1 \in {50, 75, 90, 95}, p2 \in {50, 75, 90, 95} :
            p1 < p2 =>
                Quantile(KwhPopulation(db), p1)[1] <= Quantile(KwhPopulation(db), p2)[1]

\* The route has answered for percentile 75 with a threshold strictly above
\* the one percentile 50 gives on the same store, whose rows are not stored
\* in ascending order of kwh.
C12_Witness ==
    /\ resp.op = "visualisation_high_demand"
    /\ resp.percentile = 75
    /\ db.energy_usage # {}
    /\ resp.threshold = Quantile(KwhPopulation(db), 75)
    /\ resp.threshold[1] > Quantile(KwhPopulation(db), 50)[1]
    /\ \E u \in db.energy_usage, v \in db.energy_usage :
          u.usage_id < v.usage_id /\ u.kwh > v.kwh

----------------------------------------------------------------------------
(* C13 *)

\* The rows of the whole EnergyUsage table below and above a value.
RowsBelow(d, t) == {u \in d.energy_usage : u.kwh < t}

RowsAbove(d, t) == {u \in d.energy_usage : u.kwh > t}

\* t sits at rank (n - 1) * p / 100 of the kwh of all n usage rows: at most
\* the rank rounded up lie below it and at most the rest lie above it.
AtRankOfAllRows(d, p, t) ==
    LET n == Cardinality(d.energy_usage)
    IN  /\ Cardinality(RowsBelow(d, t)) * 100 < (n - 1) * p + 100
        /\ Cardinality(RowsAbove(d, t)) * 100 < (n - 1) * (100 - p) + 100
        /\ \E u \in d.energy_usage : u.kwh <= t
        /\ \E u \in d.energy_usage : u.kwh >= t

\* The usage rows hold kwh 1000, 3000 and 500, in that order.
PopulationIs_1000_3000_500(d) ==
    {<<u.usage_id, u.kwh>> : u \in d.energy_usage}
        = {<<1, 1000>>, <<2, 3000>>, <<3, 500>>}

\* C13: the percentile threshold is the quantile of the kwh of all usage
\* rows, not of one borough's, and it is the value the high-demand count is
\* taken at; for the population 1000, 3000, 500 and percentile 50 it is 1000.
C13_ThresholdOverWholePopulation ==
    [][(Answers("visualisation_high_demand") /\ db.energy_usage # {})
       => /\ ~IsNone(resp'.threshold)
          /\ AtRankOfAllRows(db, resp'.percentile, resp'.threshold[1])
          /\ IF UsageAbove(db, resp'.threshold[1]) # {}
             THEN CountsStrictlyAbove(db, resp'.threshold[1], resp'.demand_counts)
             ELSE \A B \in DOMAIN resp'.demand_counts : resp'.demand_counts[B] = 0
          /\ (PopulationIs_1000_3000_500(db) /\ resp'.percentile = 50)
                => resp'.threshold = Some(1000)]_vars

\* The route has answered for percentile 50 on the population 1000, 3000,
\* 500, which spans two boroughs, and one row is counted as high demand.
C13_Witness ==
    /\ resp.op = "visualisation_high_demand"
    /\ resp.percentile = 50
    /\ PopulationIs_1000_3000_500(db)
    /\ Cardinality({b.borough_name : b \in db.building}) = 2
    /\ resp.threshold = Some(1000)
    /\ resp.demand_counts = [B \in {"Camden"} |-> 1]

----------------------------------------------------------------------------
(* C14 *)

\* C14: when the source file is absent, add_all_data reports the error and
\* aborts the whole load: the store is what it was when the run began, no
\* sub-step has run, and the run returns instead of raising.
C14_MissingFileAbortsLoad ==
    (~csv_exists /\ pc # "idle")
        => /\ pc = "done"
           /\ db = start
           /\ Counts(db) = Counts(start)
           /\ rowIdx = 0 /\ loaded = {}
           /\ log = {"CSV file not found"}

\* A run on an empty store without the file has returned.
C14_Witness ==
    /\ ~csv_exists
    /\ pc = "done"
    /\ start = EmptyDb
    /\ db = EmptyDb
    /\ "CSV file not found" \in log

----------------------------------------------------------------------------
(* C15 *)

\* The step in which the sub-step named by msg fails.
SubStepFails(msg) == msg \notin log /\ msg \in log'

\* C15: when inserting the boroughs (or the building types) fails with a
\* database error, the whole sub-step is rolled back, so that none of its
\* names persist, the error is not propagated, and the loader goes on to the
\* following sub-step (building types, then buildings).
C15_FailedSubStepRolledBack ==
    [][/\ SubStepFails("Failed to add boroughs")
          => /\ db' = db
             /\ db'.borough = {}
             /\ pc' = "building_types"
       /\ SubStepFails("Failed to add building types")
          => /\ db' = db
             /\ db'.building_type = {}
             /\ pc' = "buildings"]_vars

\* The boroughs sub-step failed after at least one name had been added, the
\* building types were then stored, and the loader is in the buildings
\* sub-step with no borough stored.
C15_Witness ==
    /\ "Failed to add boroughs" \in log
    /\ "Failed to add building types" \notin log
    /\ Len(df) >= 2
    /\ db.borough = {}
    /\ db.building_type # {}
    /\ pc = "rows"

----------------------------------------------------------------------------
(* C16 *)

\* A run on an empty store, with a readable source, has completed without
\* any database error.
CleanLoadCompleted ==
    /\ pc = "done"
    /\ csv_exists
    /\ start = EmptyDb
    /\ log = {}

\* C16: when add_all_data runs to completion on an empty store with a
\* readable source and no database error, the store ends with exactly one
\* Building and exactly one EnergyUsage per source row, each EnergyUsage
\* referencing the Building created from the same row.
C16_OneBuildingAndUsagePerRow ==
    CleanLoadCompleted
        => /\ Cardinality(db.building) = Len(csv)
           /\ Cardinality(db.energy_usage) = Len(csv)
           /\ \A i \in 1..Len(csv) :
                 \E b \in db.building, u \in db.energy_usage :
                    /\ b.building_id = i
                    /\ b.borough_name = Strip(csv[i].BOROUGH)
                    /\ b.latitude = csv[i].LATITUDE
                    /\ b.longitude = csv[i].LONGITUDE
                    /\ u.usage_id = i
                    /\ u.building_id = b.building_id
                    /\ u.kwh = csv[i].KWH
                    /\ u.peak_kw = csv[i].PEAK_KW

\* A clean load of three rows, one of them with padded names, has completed.
C16_Witness ==
    /\ CleanLoadCompleted
    /\ Len(csv) = 3
    /\ \E i \in 1..3 : csv[i] = R4
    /\ Cardinality(db.energy_usage) = 3

----------------------------------------------------------------------------
(* C17 *)

\* The operations of the aggregation layer, by the request that runs them.
AggregationOps ==
    {"building_count_chart", "create_avg_energy_chart", "create_geomap_figure",
     "generate_pie_chart_by_borough", "create_energy_heatmap",
     "create_high_demand_chart", "visualisation_high_demand",
     "borough_summary_generate", "building_type_focus_report"}

\* C17: no aggregation operation changes the store: Borough, BuildingType,
\* Building and EnergyUsage hold after the call what they held before, for
\* every input.
C17_AggregationLeavesStore ==
    [][(\E op \in AggregationOps : Answers(op))
       => /\ db'.borough = db.borough
          /\ db'.building_type = db.building_type
          /\ db'.building = db.building
          /\ db'.energy_usage = db.energy_usage]_vars

\* The pie chart of a borough without data has been answered on a store that
\* a load has filled, and the store holds no type other than the loaded ones.
C17_Witness ==
    /\ resp.op = "generate_pie_chart_by_borough"
    /\ resp.fig.names = {"No data"}
    /\ pc = "done" /\ loaded # {}
    /\ db.energy_usage # {}
    /\ \A t \in db.building_type : t.building_type_name \in {"Residential", "Mixed-Use"}

----------------------------------------------------------------------------
(* C18 *)

\* The type names that have a usage row in borough B.
TypeNamesWithUsage(d, B) ==
    {t.building_type_name : t \in
        {x \in d.building_type : UsageOfBoroughAndType(d, B, x.building_type_name) # {}}}

\* C18: generate_pie_chart_by_borough(B) yields, for each building type name
\* with at least one usage row in borough B, the sum of kwh over B's usage
\* rows of that type; when B has no usage row it yields the single
\* placeholder entry 'No data'.
C18_PieSumsPerType ==
    [][Answers("generate_pie_chart_by_borough")
       => LET B == resp'.borough
              fig == resp'.fig
          IN  IF UsageOfBorough(db, B) = {}
              THEN fig.names = {"No data"} /\ DOMAIN fig.values = {"No data"}
              ELSE /\ fig.names = TypeNamesWithUsage(db, B)
                   /\ DOMAIN fig.values = fig.names
                   /\ \A n \in fig.names :
                         fig.values[n] = SumKwh(UsageOfBoroughAndType(db, B, n))]_vars

\* A pie of two types, one of them summed over several usage rows.
C18_Witness ==
    /\ resp.op = "generate_pie_chart_by_borough"
    /\ Cardinality(resp.fig.names) = 2
    /\ resp.fig.values = PieChart(db, resp.borough).values
    /\ \E n \in resp.fig.names :
          Cardinality(UsageOfBoroughAndType(db, resp.borough, n)) > 1

----------------------------------------------------------------------------
(* C19 *)

\* 'energy' occurs in the headline, in whatever case.
HasEnergy(headline) ==
    \E i \in 1..(Len(headline) - 5) :
        /\ headline[i] \in {"e", "E"}
        /\ headline[i + 1] \in {"n", "N"}
        /\ headline[i + 2] \in {"e", "E"}
        /\ headline[i + 3] \in {"r", "R"}
        /\ headline[i + 4] \in {"g", "G"}
        /\ headline[i + 5] \in {"y", "Y"}

\* The request failed: the network, the HTTP status, or a result that lacks
\* a field the handler reads from it.
FeedFailed(outcome) ==
    \/ outcome.kind \in {"ConnectionError", "HTTPError"}
    \/ /\ outcome.kind = "json"
       /\ "response" \in DOMAIN outcome.data
       /\ "results" \in DOMAIN outcome.data.response
       /\ \E i \in 1..Len(outcome.data.response.results) :
             LET a == outcome.data.response.results[i]
             IN  \/ "fields" \notin DOMAIN a
                 \/ "headline" \notin DOMAIN a.fields
                 \/ /\ HasEnergy(a.fields.headline)
                    /\ \/ {"webUrl", "webPublicationDate", "sectionName"} \ DOMAIN a # {}
                       \/ "trailText" \notin DOMAIN a.fields

\* C19: on any failure of the news-feed request (network error, HTTP error
\* status, payload missing an expected field) the esg handler uses an empty
\* article list and still answers normally, the failure never leaving the
\* handler; on success every article listed has 'energy' in its headline,
\* case-insensitively.
C19_FeedFailureAbsorbed ==
    [][Answers("esg")
       => /\ IsNone(resp'.raised)
          /\ resp'.template = Some("esg.html")
          /\ FeedFailed(resp'.outcome) => resp'.articles = <<>>
          /\ \A i \in 1..Len(resp'.articles) : HasEnergy(resp'.articles[i].title)]_vars

\* The handler has answered with an empty list for a payload whose first
\* article is complete and has 'ENERGY' in capitals, and whose second lacks a
\* field.
C19_Witness ==
    /\ resp.op = "esg"
    /\ resp.outcome.kind = "json"
    /\ FeedFailed(resp.outcome)
    /\ Len(resp.outcome.data.response.results) = 2
    /\ resp.outcome.data.response.results[1]
          = FullArticle(<<"E", "N", "E", "R", "G", "Y">>)
    /\ resp.articles = <<>>
    /\ IsNone(resp.raised)

----------------------------------------------------------------------------
(* C20 *)

\* The parameter is missing or has the empty value.
Lacks(arg) == IsNone(arg) \/ arg[1] = <<>>

\* C20: the building-type focus report answers 'Missing required
\* parameters.' and computes no report whenever the request has no building
\* type, no borough or no metric (missing or empty); it never proceeds with an
\* empty borough list or an empty metric list.
C20_MissingParameterReported ==
    [][(/\ Answers("building_type_focus_report")
        /\ \/ Lacks(resp'.request.building_type)
           \/ Lacks(resp'.request.boroughs)
           \/ Lacks(resp'.request.metrics))
       => /\ IsNone(resp'.answer.raised)
          /\ resp'.answer.message = Some("Missing required parameters.")
          /\ ~resp'.answer.computed]_vars

----------------------------------------------------------------------------
(* C21 *)

RECURSIVE Ascending(_)
Ascending(S) ==
    IF S = {} THEN <<>>
    ELSE LET i == CHOOSE j \in S : \A k \in S : j <= k
         IN  <<i>> \o Ascending(S \ {i})

\* The positions of character ch in text that are outside quotes: an even
\* number of quote characters comes before them.
Breaks(text, ch) ==
    {i \in 1..Len(text) :
        /\ text[i] = ch
        /\ Cardinality({j \in 1..(i - 1) : text[j] = "\""}) % 2 = 0}

\* The pieces of text that end at the given positions.
Pieces(text, ends) ==
    [k \in 1..Len(ends) |->
        SubSeq(text, (IF k = 1 THEN 1 ELSE ends[k - 1] + 1), ends[k] - 1)]

RECURSIVE Undouble(_)
Undouble(text) ==
    IF Len(text) >= 2 /\ text[1] = "\"" /\ text[2] = "\""
    THEN <<"\"">> \o Undouble(SubSeq(text, 3, Len(text)))
    ELSE IF text = <<>> THEN <<>>
    ELSE <<Head(text)>> \o Undouble(Tail(text))

\* The value of a field as written: without its enclosing quotes.
Unquote(field) ==
    IF field # <<>> /\ field[1] = "\""
    THEN Undouble(SubSeq(field, 2, Len(field) - 1))
    ELSE field

\* A reader of CSV text: the rows of fields it holds.
ParseCsv(text) ==
    LET lines == Pieces(text, Ascending(Breaks(text, "\n")))
        fields(line) == Pieces(line, Ascending(Breaks(line, ",") \cup {Len(line) + 1}))
    IN  [k \in 1..Len(lines) |->
            [f \in 1..Len(fields(lines[k])) |-> Unquote(fields(lines[k])[f])]]

\* The summary is answered as a CSV attachment.
CsvSummaryAnswered ==
    /\ SummaryAnswered
    /\ resp'.output_format = "csv"
    /\ ~IsNone(resp'.ret.df)

\* C21: for the same borough, building type and threshold, the CSV export of
\* the borough summary, read back, has a header row equal to the display
\* column names and as many data rows as the table_data of the HTML table, in
\* the same order, with the same formatted kWh and peak-kW values.
C21_CsvExportMatchesTable ==
    [][CsvSummaryAnswered
       => LET parsed == ParseCsv(resp'.body[1])
              table == generate_borough_summary_data(
                           db, resp'.borough, resp'.building_type,
                           resp'.threshold).table_data[1]
              order == Ascending(DOMAIN table)
          IN  /\ Len(parsed) = Len(order) + 1
              /\ parsed[1] = [i \in 1..5 |-> <<ColumnNames[i]>>]
              /\ \A k \in 1..Len(order) :
                    /\ Len(parsed[k + 1]) = 5
                    /\ parsed[k + 1][3] = <<table[order[k]].BuildingType>>
                    /\ parsed[k + 1][4] = table[order[k]].AnnualEnergyUse
                    /\ parsed[k + 1][5] = table[order[k]].PeakDemand]_vars

\* A CSV export of several rows, one of them with a kWh value written with a
\* thousands separator.
C21_Witness ==
    /\ resp.op = "borough_summary_generate"
    /\ resp.output_format = "csv"
    /\ ~IsNone(resp.body)
    /\ Cardinality(DOMAIN resp.ret.df[1]) >= 2
    /\ Len(ParseCsv(resp.body[1])) = Cardinality(DOMAIN resp.ret.df[1]) + 1
    /\ \E i \in DOMAIN resp.ret.df[1] : resp.ret.df[1][i].kwh >= 1000

----------------------------------------------------------------------------
(* C22 *)

\* The loader leaves the sub-step it is in.
Leaves(step) == pc = step /\ pc' # step

\* C22: each of the three loader sub-steps, reached with its table (Borough,
\* BuildingType, Building) non-empty, is skipped and leaves that table as it
\* is; when Building is non-empty no Building and no EnergyUsage row is
\* added, even if source rows were never loaded or EnergyUsage is empty.
C22_NonEmptyTableSkipped ==
    [][/\ (Leaves("boroughs") /\ db.borough # {})
          => db' = db /\ pc' = "building_types"
       /\ (Leaves("building_types") /\ db.building_type # {})
          => db' = db /\ pc' = "buildings"
       /\ (Leaves("buildings") /\ db.building # {})
          => db' = db /\ pc' = "done"
       /\ start'.building # {}
          => /\ db'.building = start'.building
             /\ db'.energy_usage = start'.energy_usage]_vars

\* A load of a non-empty source has returned on the store that held one
\* building and no usage row, and has added nothing.
C22_Witness ==
    /\ pc = "done"
    /\ start = BuildingOnlyDb
    /\ Len(df) >= 2
    /\ db = BuildingOnlyDb
    /\ log = {}

----------------------------------------------------------------------------
(* C23 *)

\* An iteration of the row loop ends in this step without a commit: the
\* database raised at the Building or at the EnergyUsage of the row.
RowFails ==
    /\ pc = "rows"
    /\ rowIdx <= Len(df)
    /\ df[rowIdx].BUILDING_TYPE \in DOMAIN type_map
    /\ loaded' = loaded
    /\ rowIdx' # rowIdx \/ pc' # pc

\* C23: when the insert of a row's Building or of its EnergyUsage fails with
\* a database error, only that row's work is rolled back: no Building of the
\* row persists without its EnergyUsage, the rows committed before remain,
\* and the loop goes on to the next row.
C23_RowFailureOnlySkipsRow ==
    [][RowFails
       => /\ db'.building = db.building
          /\ db'.energy_usage = db.energy_usage
          /\ pc' = "rows"
          /\ rowIdx' = rowIdx + 1]_vars


----------------------------------------------------------------------------
(* C24 *)

\* Both invocations are over, having started together on an empty store
\* with the CSV file there.
BothLoadsOver ==
    /\ csv_exists
    /\ start = EmptyDb
    /\ \A p \in Loaders : run[p].pc = "done"

\* What one load of the CSV into an empty store leaves.
SingleRunCounts ==
    [borough |-> Cardinality(ColumnValues(clean_dataframe(csv), "BOROUGH")),
     building_type |-> Cardinality(ColumnValues(clean_dataframe(csv), "BUILDING_TYPE")),
     building |-> Len(csv),
     energy_usage |-> Len(csv)]

\* C24: for every interleaving of two add_all_data invocations started on an
\* empty store, each distinct building type name is stored at most once,
\* the source rows yield no more than one Building and one EnergyUsage
\* each, and the final row counts are those of a single run.
C24_ConcurrentLoadsLikeOne ==
    BothLoadsOver =>
        /\ \A t1, t2 \in db.building_type :
              t1.building_type_name = t2.building_type_name => t1 = t2
        /\ Cardinality(db.building) <= Len(csv)
        /\ Cardinality(db.energy_usage) <= Len(csv)
        /\ Counts(db) = SingleRunCounts


----------------------------------------------------------------------------
(* C25 *)

\* A load into an empty store, with the CSV there, is running or over and has
\* met no database error.
CleanLoadFromEmpty ==
    /\ pc \notin {"idle", "raised"}
    /\ csv_exists
    /\ start = EmptyDb
    /\ log = {}

BoroughsCommitted ==
    db.borough = {Strip(csv[i].BOROUGH) : i \in DOMAIN csv}

BuildingTypesCommitted ==
    /\ {t.building_type_name : t \in db.building_type}
          = {Strip(csv[i].BUILDING_TYPE) : i \in DOMAIN csv}
    /\ \A t1, t2 \in db.building_type :
          t1.building_type_name = t2.building_type_name => t1 = t2

\* C25: throughout and after a load into an empty store, Borough holds
\* exactly the distinct trimmed borough names once its sub-step is over,
\* BuildingType holds exactly one row per distinct trimmed type name once
\* its sub-step is over, both are complete whenever a Building is stored,
\* and every Building carries the building_type_id of the BuildingType whose
\* name is the trimmed BUILDING_TYPE of its source row.
C25_DimensionsBeforeBuildings ==
    CleanLoadFromEmpty =>
        /\ pc # "boroughs" => BoroughsCommitted
        /\ pc \notin {"boroughs", "building_types"} => BuildingTypesCommitted
        /\ pc \in {"boroughs", "building_types", "buildings"} => db.building = {}
        /\ db.building # {} => BoroughsCommitted /\ BuildingTypesCommitted
        /\ \A b \in db.building :
              /\ b.building_id \in DOMAIN csv
              /\ BuildingType(b.building_type_id, Strip(csv[b.building_id].BUILDING_TYPE))
                    \in db.building_type

C25_Witness ==
    /\ CleanLoadFromEmpty
    /\ pc = "done"
    /\ csv = <<R4, R2, R1>>
    /\ Cardinality(db.building) = 3
    /\ Cardinality(db.building_type) = 2
    /\ db.borough = {"Camden"}


----------------------------------------------------------------------------
(* C26 *)

\* The buildings of borough b whose building type is named t.
BuildingsOf(d, b, t) ==
    {x \in d.building :
        /\ x.borough_name = b
        /\ \E y \in d.building_type :
              y.building_type_id = x.building_type_id /\ y.building_type_name = t}

RECURSIVE TotalOf(_, _)
\* The sum of the values f takes on keys.
TotalOf(f, keys) ==
    IF keys = {} THEN 0
    ELSE LET k == CHOOSE x \in keys : TRUE IN f[k] + TotalOf(f, keys \ {k})

\* Every Building names a stored borough and a stored building type.
ReferentialIntegrity(d) == \A b \in d.building : BuildingFKOk(d, b)

\* C26: building_count_chart reports, for each borough and building type
\* name with a building, the number of buildings of that borough and type,
\* and when every Building names a stored borough and type the reported
\* counts add up to the number of Building rows.
C26_BuildingCountsPerBoroughAndType ==
    [][Answers("building_count_chart") =>
          LET counts == resp'.total_buildings
          IN  /\ \A k \in DOMAIN counts :
                    counts[k] = Cardinality(BuildingsOf(db, k[1], k[2]))
              /\ \A b \in db.borough :
                    \A t \in {y.building_type_name : y \in db.building_type} :
                        BuildingsOf(db, b, t) # {} => <<b, t>> \in DOMAIN counts
              /\ ReferentialIntegrity(db) =>
                    TotalOf(counts, DOMAIN counts) = Cardinality(db.building)]_vars

C26_Witness ==
    /\ resp.op = "building_count_chart"
    /\ ReferentialIntegrity(db)
    /\ Cardinality(db.building) = 3
    /\ Cardinality(DOMAIN resp.total_buildings) = 3
    /\ \E k \in DOMAIN resp.total_buildings : resp.total_buildings[k] = 1


----------------------------------------------------------------------------
(* C27 *)

\* The usage rows of the buildings of borough b whose type is named t.
UsageOf(d, b, t) ==
    {u \in d.energy_usage :
        \E x \in BuildingsOf(d, b, t) : x.building_id = u.building_id}

RECURSIVE SumMetric(_, _)
SumMetric(us, metric) ==
    IF us = {} THEN 0
    ELSE LET u == CHOOSE x \in us : TRUE
         IN  (IF metric = "kwh" THEN u.kwh ELSE u.peak_kw) + SumMetric(us \ {u}, metric)

\* The focus handler answers in this step, having called
\* generate_building_type_focus_data.
FocusComputed ==
    Answers("building_type_focus_report") /\ resp'.answer.computed

\* C27: generate_building_type_focus_data gives, for each selected borough
\* with a usage row of the chosen type, the mean over those rows of each
\* requested metric; it draws a chart for exactly the requested metrics
\* among kwh and peak_kw; and when no row matches it gives the empty frame,
\* no chart and the no-data message.
C27_FocusMeansPerBorough ==
    [][FocusComputed =>
          LET ret == resp'.answer.returned
              t == NameOf(resp'.request.building_type[1])
              requested == Range(resp'.answer.metrics) \cap {"kwh", "peak_kw"}
              with_rows == {b \in Range(resp'.answer.boroughs) : UsageOf(db, b, t) # {}}
          IN  IF with_rows = {}
              THEN /\ DOMAIN ret.df = {}
                   /\ ret.chart_data = <<>>
                   /\ ret.table_html = Some("No data found for the selected filters.")
              ELSE /\ DOMAIN ret.table_html[1] = with_rows
                   /\ \A b \in with_rows : \A metric \in requested :
                         /\ ret.table_html[1][b][metric]
                               = Frac(SumMetric(UsageOf(db, b, t), metric),
                                      Cardinality(UsageOf(db, b, t)))
                         /\ ret.chart_data[metric][b] = ret.table_html[1][b][metric]
                   /\ DOMAIN ret.chart_data = requested
                   /\ \A metric \in requested : DOMAIN ret.chart_data[metric] = with_rows]_vars

\* An unrecognised metric name with matching rows: a table, no chart.
C27_Witness ==
    /\ resp.op = "building_type_focus_report"
    /\ resp.answer.computed
    /\ resp.answer.metrics = <<"invalid">>
    /\ resp.answer.returned.chart_data = <<>>
    /\ Cardinality(DOMAIN resp.answer.returned.df) >= 2
    /\ DOMAIN resp.answer.returned.table_html[1] = {"Camden", "Westminster"}


----------------------------------------------------------------------------
(* C28 *)

\* The pie of a borough with usage rows is answered in this step.
PieWithDataAnswered ==
    /\ Answers("generate_pie_chart_by_borough")
    /\ UsageOfBorough(db, resp'.borough) # {}

\* C28: for a borough with at least one usage row, the sums per building
\* type of generate_pie_chart_by_borough add up to the total_kwh of
\* generate_borough_summary_data for that borough with no building type
\* filter and threshold 0.
C28_PieAddsUpToSummaryTotal ==
    [][PieWithDataAnswered =>
          LET fig == resp'.fig
              ret == generate_borough_summary_data(db, resp'.borough, "", 0)
          IN  /\ ~IsNone(ret.summary_stats)
              /\ TotalOf(fig.values, fig.names) = ret.summary_stats[1].total_kwh]_vars

\* A pie of two types in a store where another borough has usage rows too.
C28_Witness ==
    /\ resp.op = "generate_pie_chart_by_borough"
    /\ Cardinality(resp.fig.names) = 2
    /\ resp.fig = PieChart(db, resp.borough)
    /\ \E u \in db.energy_usage : u \notin UsageOfBorough(db, resp.borough)
    /\ TotalOf(resp.fig.values, resp.fig.names)
          = generate_borough_summary_data(db, resp.borough, "", 0).summary_stats[1].total_kwh

----------------------------------------------------------------------------
(* C29 *)

\* A borough summary with rows is answered in this step.
NonEmptySummaryAnswered == SummaryAnswered /\ ~IsNone(resp'.ret.df)

----------------------------------------------------------------------------
(* C30 *)

\* The focus report is answered as a CSV attachment.
FocusCsvAnswered == FocusComputed /\ "body" \in DOMAIN resp'.answer

\* The metric a column label of the export stands for.
LabelledMetric(label) ==
    IF label = <<"Average Annual Use (kWh)">> THEN "kwh" ELSE "peak_kw"

\* C30: the CSV export of the focus report, read back, has the column
\* Borough followed by columns labelled Average Annual Use (kWh) and Average
\* Peak Demand (kW), and one data row per borough of the HTML summary table,
\* whose cells are the per-borough means of that table.
C30_FocusCsvCarriesMeans ==
    [][FocusCsvAnswered =>
          LET parsed == ParseCsv(resp'.answer.body[1])
              summary == resp'.answer.returned.table_html[1]
          IN  /\ parsed[1][1] = <<"Borough">>
              /\ \A c \in 2..Len(parsed[1]) :
                    parsed[1][c] \in {<<"Average Annual Use (kWh)">>,
                                      <<"Average Peak Demand (kW)">>}
              /\ Len(parsed) = Cardinality(DOMAIN summary) + 1
              /\ \A b \in DOMAIN summary :
                    \E k \in 2..Len(parsed) : parsed[k][1] = <<b>>
              /\ \A k \in 2..Len(parsed) :
                    /\ parsed[k][1][1] \in DOMAIN summary
                    /\ \A c \in 2..Len(parsed[1]) :
                          LET mean == summary[parsed[k][1][1]][LabelledMetric(parsed[1][c])]
                          IN  mean.den = 1 /\ parsed[k][c] = FloatRepr(mean.num)]_vars

====
